---- MODULE Spec2Model ----
(***************************************************************************)
(* A model of the mcptools daily planner: the Gmail classifiers and filter *)
(* (gmail_tools.py), the subject normaliser and thread grouping            *)
(* (gmail_thread_tools.py), the two planning pipelines (run_process_new.py *)
(* and run_process_new_v2.py) and the scheduler's lock (scheduler.py).     *)
(*                                                                         *)
(* Python strings are TLA+ strings; `in`, lower(), startswith(), strip()   *)
(* and split() are computed character by character, so the keyword lists   *)
(* below are the ones of the source, letter for letter.                    *)
(***************************************************************************)
EXTENDS Integers, Sequences, FiniteSets, TLC

VARIABLES
    pc,               \* position of the pipeline under study
    arg,              \* input of the pure function under study
    ret,              \* its result
    inbox,            \* the messages Gmail returns to search()/get_email()
    summarizer,       \* what the summarizer answers for each thread
    urgent,           \* get_urgent_emails' result
    reference_emails, \* GmailTools.reference_emails
    seen_subjects,    \* process_new's dict, as a sequence of <<key, email>>
    threads,          \* ordered dict normalized subject -> emails
    thread_analyses,  \* process_new_comprehensive's list of analyses
    plan,             \* the plan handed to the note renderer
    lock,             \* owner of scheduler.lock, or "free"
    proc,             \* position of every process that can start a run
    stats,            \* scheduler.stats of every scheduler process
    tasks,            \* the tasks get_tasks() returned to the run
    events,           \* the events the calendar returns to get_events()
    note,             \* the note update_daily_note_with_plan created last
    runs,             \* what every finished run of process_new fetched and
                      \* counted
    todoist,          \* the tasks of the Todoist account
    amplenote         \* the Amplenote account: its token and its notes

vars == <<pc, arg, ret, inbox, summarizer, urgent, reference_emails,
          seen_subjects, threads, thread_analyses, plan, lock, proc, stats,
          tasks, events, note, runs,
         todoist, amplenote>>

(***************************************************************************)
(* Python's str operations                                                 *)
(***************************************************************************)
\* str.lower() on the letters A..Z
LowerMap ==
    [A |-> "a", B |-> "b", C |-> "c", D |-> "d", E |-> "e", F |-> "f",
     G |-> "g", H |-> "h", I |-> "i", J |-> "j", K |-> "k", L |-> "l",
     M |-> "m", N |-> "n", O |-> "o", P |-> "p", Q |-> "q", R |-> "r",
     S |-> "s", T |-> "t", U |-> "u", V |-> "v", W |-> "w", X |-> "x",
     Y |-> "y", Z |-> "z"]

\* str.lower() on one character
LowerChar(c) == IF c \in DOMAIN LowerMap THEN LowerMap[c] ELSE c

RECURSIVE Lower(_)
\* str.lower()
Lower(s) ==
    IF s = "" THEN ""
    ELSE LowerChar(SubSeq(s, 1, 1)) \o Lower(SubSeq(s, 2, Len(s)))

\* `sub in s`
Contains(s, sub) ==
    \E i \in 1..(Len(s) - Len(sub) + 1) : SubSeq(s, i, i + Len(sub) - 1) = sub

\* s.startswith(prefix)
StartsWith(s, prefix) ==
    /\ Len(prefix) <= Len(s)
    /\ SubSeq(s, 1, Len(prefix)) = prefix

RECURSIVE LStrip(_)
LStrip(s) ==
    IF s # "" /\ SubSeq(s, 1, 1) = " " THEN LStrip(SubSeq(s, 2, Len(s))) ELSE s

RECURSIVE RStrip(_)
RStrip(s) ==
    IF s # "" /\ SubSeq(s, Len(s), Len(s)) = " "
    THEN RStrip(SubSeq(s, 1, Len(s) - 1)) ELSE s

\* str.strip()
Strip(s) == RStrip(LStrip(s))

RECURSIVE CollapseSpaces(_)
\* ' '.join(s.split()) on a string that is already stripped
CollapseSpaces(s) ==
    IF Len(s) < 2 THEN s
    ELSE IF SubSeq(s, 1, 2) = "  " THEN CollapseSpaces(SubSeq(s, 2, Len(s)))
    ELSE SubSeq(s, 1, 1) \o CollapseSpaces(SubSeq(s, 2, Len(s)))

\* ' '.join(s.split())
JoinSplit(s) == CollapseSpaces(Strip(s))

\* any(k in text for k in keywords)
AnyIn(keywords, text) == \E k \in keywords : Contains(text, k)

(***************************************************************************)
(* GmailTools: the static lists                                            *)
(***************************************************************************)
reference_patterns ==
    { "account number", "account #", "account:", "acct #",
      "confirmation number", "confirmation code", "confirmation #",
      "reference number", "reference #", "ref #",
      "policy number", "policy #", "claim number", "case number",
      "username:", "password:", "login:", "credentials",
      "activation code", "verification code", "access code",
      "membership number", "member #", "customer id", "customer number",
      "order number", "order #", "invoice #", "invoice number",
      "hoa", "homeowners association", "property account" }

whitelist_domains ==
    { "fcps.edu", "fairfaxcounty.gov", "townsq.io", "virginiadmv",
      "irs.gov", "dmv.virginia.gov" }

skip_senders ==
    { "tiktok.com",
      "marketing@", "promo@", "newsletter@",
      "redditmail.com", "email.monarch.com", "rescueme.org",
      "membershipto", "bankofamerica.com",
      "ealerts.", "USPSInformeddelivery", "schwab.com",
      "creditkarma.com", "omadahealth.com",
      "congressman", "senator", "representative", "house.gov",
      "senate.gov", "whitehouse.gov", "campaign@", "political",
      "amazon.com", "shipment-tracking@", "ship-confirm@",
      "auto-confirm@", "order-update@", "delivery@",
      "fedex.com", "ups.com", "usps.com", "dhl.com",
      "tracking@", "shipping@", "shippo.com",
      "newsletters@audible.com", "audible.com",
      "email.bestbuy.com", "bestbuy.com",
      "emails.ugg.com", "ugg.com",
      "email@mail.salesforce.com",
      "royalcaribbean", "carnival.com", "norwegiancruise",
      "princess.com", "hollandamerica.com",
      "motley.fool.com", "fool@", "morningstar.com",
      "seekingalpha.com", "investopedia.com",
      "thestreet.com", "marketwatch.com", "barrons.com",
      "turbotax@", "turbotax.intuit.com", "intuit.com",
      "hbo.com", "hbomax.com", "max.com", "warnermedia.com",
      "zocdoc.com", "mail5.zocdoc.com",
      "notify@membershiptoolkit.com", "afterschool activities",
      "fool.com", "motleyfool.com", "tom gardner" }

priority_keywords ==
    { "school closed", "school closing", "schools closed",
      "school delay", "two-hour delay", "early dismissal",
      "appointment reminder", "appointment confirmed",
      "scheduled for", "appointment on",
      "field trip", "permission slip",
      "registration due", "renewal due", "expires",
      "property maintenance", "on site", "service scheduled",
      "today at", "this afternoon", "this evening",
      "same day", "deadline today" }

skip_keywords ==
    { "shipped", "delivered", "delivery", "tracking",
      "package", "shipment", "order confirmation",
      "your order", "has shipped", "out for delivery",
      "hanger", "hangers", "item has been delivered",
      "deal ends", "wish list", "sale", "discount",
      "trade up", "own apple for less",
      "view as a web page", "membership now",
      "newness for your littles", "latest and greatest",
      "instant savings", "save up to", "up to $", "off before",
      "vacay alert", "vacation alert", "cruise deal",
      "limited time offer", "act now", "ends tonight",
      "last chance", "final hours", "flash sale",
      "mega savings", "huge savings", "score up to",
      "click here to", "shop now", "buy now", "order now",
      "free shipping", "free delivery", "no purchase necessary",
      "terms and conditions apply", "see details" }

\* the urgency words of get_urgent_emails
urgency_words ==
    { "urgent", "asap", "today", "deadline", "due",
      "important", "action required", "respond", "confirm" }

(***************************************************************************)
(* GmailTools: the classifiers                                             *)
(***************************************************************************)
is_whitelisted_sender(sender) == AnyIn(whitelist_domains, Lower(sender))

\* a bug that tests the skip patterns before the whitelist
is_important_sender_SkipFirst(sender) ==
    IF AnyIn(skip_senders, Lower(sender)) THEN FALSE
    ELSE TRUE

is_important_sender(sender) ==
    IF is_whitelisted_sender(sender) THEN TRUE
    ELSE IF AnyIn(skip_senders, Lower(sender)) THEN FALSE
    ELSE TRUE

has_priority_content(subject, body) ==
    AnyIn(priority_keywords, Lower(subject \o " " \o body))

\* a bug that forgets the priority-content override
is_unimportant_email_NoPriority(subject, body, sender) ==
    IF is_whitelisted_sender(sender) THEN FALSE
    ELSE AnyIn(skip_keywords, Lower(subject \o " " \o body))

is_unimportant_email(subject, body, sender) ==
    IF is_whitelisted_sender(sender) THEN FALSE
    ELSE IF has_priority_content(subject, body) THEN FALSE
    ELSE AnyIn(skip_keywords, Lower(subject \o " " \o body))

is_reference_email(subject, body) ==
    AnyIn(reference_patterns, Lower(subject \o " " \o body))

(***************************************************************************)
(* Bounds                                                                  *)
(***************************************************************************)
\* a sender string is built from at most this many fragments
MaxSenderParts == 2

\* Gmail returns at most this many messages
MaxInbox == 3

\* a subject carries at most this many reply/forward prefixes
MaxPrefixes == 2

(***************************************************************************)
(* The messages Gmail holds                                              *)
(***************************************************************************)
Fcps == "FCPS News <news@fcps.edu>"

Mailbox ==
    { [ id |-> "m1", from |-> Fcps, subject |-> "School Closed Today",
        body |-> "All schools are closed today.",
        date |-> "Mon, 02 Nov 2026 08:00:00 +0000" ],
      [ id |-> "m2", from |-> Fcps,
        subject |-> "UPDATE: School Closed Today - Early Dismissal",
        body |-> "Early dismissal at noon.",
        date |-> "Mon, 02 Nov 2026 08:00:00 +0000" ],
      [ id |-> "m3", from |-> Fcps, subject |-> "School delay",
        body |-> "Two-hour delay tomorrow.",
        date |-> "Sun, 01 Nov 2026 12:00:00 +0000" ],
      [ id |-> "m4", from |-> Fcps,
        subject |-> "UPDATE: School closed, delay lifted",
        body |-> "Buildings stay closed.",
        date |-> "Mon, 02 Nov 2026 08:00:00 +0000" ],
      [ id |-> "m5", from |-> "Jane <jane@example.org>",
        subject |-> "Re: Budget review",
        body |-> "Please respond today. Reference number 4411.",
        date |-> "Sun, 01 Nov 2026 12:00:00 -0000" ],
      [ id |-> "m6", from |-> "Coach <coach@example.org>",
        subject |-> "Practice moved", body |-> "Urgent: practice is at 5pm",
        date |-> "Unknown" ],
      [ id |-> "m7",
        from |-> "USPSInformeddelivery <mail@informeddelivery.example>",
        subject |-> "Your mail arrives today", body |-> "Two letters.",
        date |-> "Mon, 02 Nov 2026 08:00:00 +0000" ],
      [ id |-> "m8", from |-> "Shop <hello@shop.example>",
        subject |-> "Flash sale today",
        body |-> "Everything must go. Order number 77.",
        date |-> "Sat, 31 Oct 2026 16:00:00 +0000" ],
      [ id |-> "m9", from |-> "Coach <coach@example.org>",
        subject |-> "Practice moved",
        body |-> "Please confirm you can come. Member # 12.",
        date |-> "Mon, 02 Nov 2026 08:00:00 +0000" ] }

RECURSIVE Listings(_, _)
\* the lists of at most n messages with distinct ids
Listings(box, n) ==
    IF n = 0 THEN { <<>> }
    ELSE { <<>> } \cup
         { <<m>> \o rest : m \in box, rest \in Listings(box, n - 1) }

Distinct(messages) ==
    \A i, j \in 1..Len(messages) : messages[i].id = messages[j].id => i = j

\* the messages of the thread pipeline's runs
ThreadMailbox ==
    { [ id |-> "t1", from |-> "Teacher <teacher@school.example>",
        subject |-> "Field trip permission",
        body |-> "Please sign the permission slip.",
        date |-> "Mon, 02 Nov 2026 08:00:00 +0000" ],
      [ id |-> "t2", from |-> "Teacher <teacher@school.example>",
        subject |-> "Re: Field trip permission",
        body |-> "Reminder: the permission slip is due Friday.",
        date |-> "Mon, 02 Nov 2026 09:00:00 +0000" ],
      [ id |-> "t3", from |-> "Teacher <teacher@school.example>",
        subject |-> "RE: Field trip permission",
        body |-> "Last call for the permission slip.",
        date |-> "Mon, 02 Nov 2026 10:00:00 +0000" ],
      [ id |-> "t4", from |-> "FCPS Store <store@fcps.edu>",
        subject |-> "Limited time offer",
        body |-> "Save up to 20% on yearbooks.",
        date |-> "Sun, 01 Nov 2026 12:00:00 +0000" ],
      [ id |-> "t5", from |-> "Jane <jane@example.org>",
        subject |-> "Fwd: Budget review", body |-> "Please respond asap",
        date |-> "Tue, 27 Oct 2026 09:00:00 +0000" ] }

\* two more messages for the runs of the grouping and ranking functions: a late
\* reply in the thread of t5, and a thread that scores what t5 alone scores
ReplyMailbox ==
    { [ id |-> "r1", from |-> "Jane <jane@example.org>",
        subject |-> "Re: Budget review", body |-> "Thanks, will do.",
        date |-> "Mon, 02 Nov 2026 08:00:00 +0000" ],
      [ id |-> "r2", from |-> "Coach <coach@example.org>",
        subject |-> "Practice moved", body |-> "Urgent: practice is at 5pm",
        date |-> "Sun, 01 Nov 2026 12:00:00 +0000" ] }

\* every message of the model
Messages == Mailbox \cup ThreadMailbox \cup ReplyMailbox

(***************************************************************************)
(* GmailTools.get_urgent_emails                                            *)
(***************************************************************************)
\* s[:n]
Prefix(s, n) == IF Len(s) <= n THEN s ELSE SubSeq(s, 1, n)

RECURSIVE BeforeLt(_)
\* s.split('<')[0]
BeforeLt(s) ==
    IF s = "" \/ SubSeq(s, 1, 1) = "<" THEN ""
    ELSE SubSeq(s, 1, 1) \o BeforeLt(SubSeq(s, 2, Len(s)))

\* the entry appended to self.reference_emails
ReferenceEntry(msg) ==
    [ subject |-> msg.subject,
      from    |-> IF Contains(msg.from, "<") THEN Strip(BeforeLt(msg.from))
                  ELSE msg.from,
      body    |-> Prefix(msg.body, 1000),
      date    |-> msg.date,
      id      |-> msg.id ]

\* one turn of the loop over the messages: is the message recorded as a
\* reference email, is it appended to `urgent`
FilterMessage(msg) ==
    LET text == Lower(msg.subject \o " " \o msg.body)
    IN  IF ~is_important_sender(msg.from)
        THEN [reference |-> FALSE, urgent |-> FALSE]
        ELSE IF is_unimportant_email(msg.subject, msg.body, msg.from)
        THEN [reference |-> FALSE, urgent |-> FALSE]
        ELSE [ reference |-> is_reference_email(msg.subject, msg.body),
               urgent    |-> \/ is_whitelisted_sender(msg.from)
                             \/ has_priority_content(msg.subject, msg.body)
                             \/ AnyIn(urgency_words, text) ]

\* FilterMessage is a function of the message alone: its value on every message
\* of the model
Filtered == [msg \in Messages |-> FilterMessage(msg)]

RECURSIVE UrgentOf(_)
UrgentOf(messages) ==
    IF messages = <<>> THEN <<>>
    ELSE (IF Filtered[Head(messages)].urgent THEN <<Head(messages)>>
          ELSE <<>>) \o UrgentOf(Tail(messages))

RECURSIVE ReferenceOf(_)
ReferenceOf(messages) ==
    IF messages = <<>> THEN <<>>
    ELSE (IF Filtered[Head(messages)].reference
          THEN <<ReferenceEntry(Head(messages))>>
          ELSE <<>>) \o ReferenceOf(Tail(messages))

\* get_urgent_emails: the returned list and the new self.reference_emails
get_urgent_emails(messages) ==
    [urgent |-> UrgentOf(messages), reference_emails |-> ReferenceOf(messages)]

(***************************************************************************)
(* process_new (run_process_new.py): deduplication                         *)
(***************************************************************************)
\* the condition of lines 115-118 on two lower-cased subjects
SameEvent(subject_lower, seen_lower) ==
    /\ Contains(subject_lower, "school")
    /\ Contains(seen_lower, "school")
    /\ \/ Contains(subject_lower, "closed") /\ Contains(seen_lower, "closed")
       \/ Contains(subject_lower, "delay") /\ Contains(seen_lower, "delay")
       \/ Contains(subject_lower, "open") /\ Contains(seen_lower, "open")

\* a Python dict is a sequence of <<key, value>> in insertion order
DictHas(d, k) == \E i \in 1..Len(d) : d[i][1] = k

\* d[k] = v: an existing key keeps its place
DictSet(d, k, v) ==
    IF DictHas(d, k)
    THEN [i \in 1..Len(d) |-> IF d[i][1] = k THEN <<k, v>> ELSE d[i]]
    ELSE Append(d, <<k, v>>)

\* del d[k]
DictDel(d, k) ==
    LET i == CHOOSE j \in 1..Len(d) : d[j][1] = k
    IN  SubSeq(d, 1, i - 1) \o SubSeq(d, i + 1, Len(d))

\* d.values()
DictValues(d) == [i \in 1..Len(d) |-> d[i][2]]

\* the first key of `seen` that the inner loop finds to be the same event, 0 if
\* none
FirstDuplicate(seen, subject_lower) ==
    IF \E i \in 1..Len(seen) : SameEvent(subject_lower, Lower(seen[i][1]))
    THEN CHOOSE i \in 1..Len(seen) :
            /\ SameEvent(subject_lower, Lower(seen[i][1]))
            /\ \A j \in 1..(i - 1) : ~SameEvent(subject_lower, Lower(seen[j][1]))
    ELSE 0

\* a bug that keeps the first seen email even when the new one is an UPDATE
DedupEmail_KeepFirst(seen, email) ==
    IF FirstDuplicate(seen, Lower(email.subject)) = 0
    THEN DictSet(seen, email.subject, email)
    ELSE seen

\* one turn of the loop of lines 104-129
DedupEmail(seen, email) ==
    LET subject       == email.subject
        subject_lower == Lower(subject)
        i             == FirstDuplicate(seen, subject_lower)
    IN  IF i = 0 THEN DictSet(seen, subject, email)
        ELSE IF /\ Contains(subject_lower, "update:")
                /\ ~Contains(Lower(seen[i][1]), "update:")
        THEN DictDel(DictSet(seen, subject, email), seen[i][1])
        ELSE seen

RECURSIVE Deduplicate(_, _)
Deduplicate(seen, emails) ==
    IF emails = <<>> THEN seen
    ELSE Deduplicate(DedupEmail(seen, Head(emails)), Tail(emails))

(***************************************************************************)
(* process_new: the freshness cutoff                                       *)
(***************************************************************************)
\* datetime.now(), in hours, as a naive local time; the local zone is UTC
NowHour == 66

Now == [aware |-> FALSE, t |-> NowHour]

Today == "2026-11-02"

\* the Date headers of the model and the hour each one names, counted from
\* Sat, 31 Oct 2026 00:00 UTC
HeaderHours ==
    { <<"Mon, 02 Nov 2026 10:00:00 +0000", 58>>,
      <<"Mon, 02 Nov 2026 09:00:00 +0000", 57>>,
      <<"Mon, 02 Nov 2026 08:00:00 +0000", 56>>,
      <<"Sun, 01 Nov 2026 12:00:00 +0000", 36>>,
      <<"Sun, 01 Nov 2026 12:00:00 -0000", 36>>,
      <<"Sat, 31 Oct 2026 16:00:00 +0000", 16>>,
      <<"Tue, 27 Oct 2026 09:00:00 +0000", 9 - 96>> }

HeaderTime ==
    [ h \in { p[1] : p \in HeaderHours } |->
        (CHOOSE p \in HeaderHours : p[1] = h)[2] ]

\* email.utils.parsedate_to_datetime: a header with a numeric zone gives an
\* aware datetime, one with zone -0000 a naive one, anything else ValueError
parsedate_to_datetime(s) ==
    IF s \in DOMAIN HeaderTime
    THEN [ error |-> "none",
           aware |-> SubSeq(s, Len(s) - 4, Len(s)) # "-0000",
           t     |-> HeaderTime[s] ]
    ELSE [error |-> "ValueError", aware |-> FALSE, t |-> 0]

\* datetime - timedelta(hours=h)
MinusHours(d, h) == [d EXCEPT !.t = d.t - h]

\* d1 < d2 on datetimes: Python refuses to compare a naive and an aware one
DatetimeLess(d1, d2) ==
    [ error |-> IF d1.aware # d2.aware THEN "TypeError" ELSE "none",
      value |-> d1.t < d2.t ]

school_event_keywords ==
    { "school", "sacc", "btb", "closed", "delay", "dismissal", "canceled",
      "cancelled" }

school_event_cutoff == MinusHours(Now, 24)

general_cutoff == MinusHours(Now, 48)

\* a bug that drops the email whose date raises
skip_old_email_FailClosed(email) ==
    IF email.date = "" THEN FALSE
    ELSE LET parsed == parsedate_to_datetime(email.date)
         IN  IF parsed.error # "none" THEN TRUE
             ELSE LET email_date == [parsed EXCEPT !.aware = TRUE]
                      cutoff == IF AnyIn(school_event_keywords, Lower(email.subject))
                                THEN school_event_cutoff ELSE general_cutoff
                      less == DatetimeLess(email_date, cutoff)
                  IN  IF less.error # "none" THEN FALSE ELSE less.value

\* lines 146-171: the value of skip_old_email for one email
skip_old_email(email) ==
    IF email.date = "" THEN FALSE
    ELSE LET parsed == parsedate_to_datetime(email.date)
         IN  IF parsed.error # "none" THEN FALSE      \* except ValueError
             ELSE LET email_date ==
                          IF ~parsed.aware THEN [parsed EXCEPT !.aware = TRUE]
                          ELSE parsed
                      is_school_event ==
                          AnyIn(school_event_keywords, Lower(email.subject))
                      cutoff == IF is_school_event THEN school_event_cutoff
                                ELSE general_cutoff
                      less == DatetimeLess(email_date, cutoff)
                  IN  IF less.error # "none" THEN FALSE \* except TypeError
                      ELSE less.value

\* s[n:]
DropFirst(s, n) == SubSeq(s, n + 1, Len(s))

\* Python's None where a string may stand
None == "None"

\* the prefixes that make an email a reply for process_new, line 185
reply_prefixes == { "RE:", "Re:", "RE: [External]", "FW:", "Fwd:" }

is_reply(subject) == \E prefix \in reply_prefixes : StartsWith(subject, prefix)

\* the prefixes TodoistTools strips from a subject, lines 93 and 177
summary_prefixes ==
    << "RE: [External] Re: ", "Re: ", "RE: ", "FW: ", "Fwd: ", "Fw: " >>

\* the fallback of _generate_task_summary: the first prefix that matches is
\* stripped, then the loop breaks
CleanSubject(subject) ==
    LET hits == { i \in 1..Len(summary_prefixes) :
                    StartsWith(subject, summary_prefixes[i]) }
    IN  IF hits = {} THEN subject
        ELSE LET first == CHOOSE i \in hits : \A j \in hits : i <= j
             IN  DropFirst(subject, Len(summary_prefixes[first]))

\* _generate_task_summary: the cleaned subject without a key (and whenever the
\* request fails), else the task the service words, which stands here as one
\* text per subject
_generate_task_summary(subject, has_key) ==
    IF has_key THEN "Handle " \o CleanSubject(subject)
    ELSE CleanSubject(subject)

\* _generate_thread_context: "" without a key (and whenever the request
\* fails), else the service's summary of the conversation
_generate_thread_context(subject, has_key) ==
    IF has_key THEN "Thread about " \o CleanSubject(subject) \o ". Answer due."
    ELSE ""

\* lines 175-177
BodyPreview(body) ==
    Strip(Prefix(body, 200)) \o (IF Len(body) > 200 THEN "..." ELSE "")

\* the item of lines 179-215: ai_summary comes for every email, thread_context
\* for a reply only
EmailItem(email) ==
    [ title          |-> email.subject,
      source         |-> "Email",
      from           |-> email.from,
      date           |-> email.date,
      preview        |-> BodyPreview(email.body),
      email_id       |-> email.id,
      due            |-> Today,
      priority       |-> "high",
      ai_summary     |-> _generate_task_summary(email.subject,
                                                summarizer.has_key),
      thread_context |-> IF is_reply(email.subject)
                         THEN _generate_thread_context(email.subject,
                                                       summarizer.has_key)
                         ELSE None ]

RECURSIVE EmailItems(_)
\* the loop of lines 139-215 over seen_subjects.values()
EmailItems(emails) ==
    IF emails = <<>> THEN <<>>
    ELSE (IF skip_old_email(Head(emails)) THEN <<>>
          ELSE <<EmailItem(Head(emails))>>) \o EmailItems(Tail(emails))

(***************************************************************************)
(* GmailThreadTools.normalize_subject                                      *)
(***************************************************************************)
prefixes ==
    << "RE:", "Re:", "RE: [External]", "Re: [External]", "FW:", "Fwd:", "Fw:" >>

RECURSIVE StripPrefixes(_, _)
\* the loop over the prefixes, from the i-th on: one pass, each prefix tried
\* once, in the order of the list
StripPrefixes(normalized, i) ==
    IF i > Len(prefixes) THEN normalized
    ELSE StripPrefixes(
             IF StartsWith(normalized, prefixes[i])
             THEN Strip(DropFirst(normalized, Len(prefixes[i])))
             ELSE normalized,
             i + 1)

normalize_subject(subject) == JoinSplit(StripPrefixes(subject, 1))

(***************************************************************************)
(* GmailThreadTools: grouping and scoring                                  *)
(***************************************************************************)
\* the printable ASCII characters in code-point order (double quote, backslash
\* and backquote left out): Python compares strings character by character,
\* by code point
Ascii ==
    " !#$%&'()*+,-./0123456789:;<=>?@ABCDEFGHIJKLMNOPQRSTUVWXYZ[]^_abcdefghijklmnopqrstuvwxyz{|}~"

CodePoint ==
    [ c \in { SubSeq(Ascii, i, i) : i \in 1..Len(Ascii) } |->
        CHOOSE i \in 1..Len(Ascii) : SubSeq(Ascii, i, i) = c ]

RECURSIVE StrLess(_, _)
\* a < b on strings
StrLess(a, b) ==
    IF b = "" THEN FALSE
    ELSE IF a = "" THEN TRUE
    ELSE LET x == CodePoint[SubSeq(a, 1, 1)]
             y == CodePoint[SubSeq(b, 1, 1)]
         IN  IF x # y THEN x < y
             ELSE StrLess(SubSeq(a, 2, Len(a)), SubSeq(b, 2, Len(b)))

\* threads[key].append(email) on the dict of threads, a sequence of
\* <<normalized subject, emails>> in insertion order
AppendToThread(dict, key, email) ==
    IF DictHas(dict, key)
    THEN [i \in 1..Len(dict) |->
            IF dict[i][1] = key THEN <<key, Append(dict[i][2], email)>>
            ELSE dict[i]]
    ELSE Append(dict, <<key, <<email>>>>)

RECURSIVE GroupInto(_, _)
\* the loop of lines 43-46
GroupInto(dict, emails) ==
    IF emails = <<>> THEN dict
    ELSE GroupInto(
             AppendToThread(dict, normalize_subject(Head(emails).subject),
                            Head(emails)),
             Tail(emails))

\* e placed behind every element whose key is not greater: a stable sort
InsertByDate(sorted, e) ==
    LET n == Cardinality({ i \in 1..Len(sorted) : ~StrLess(e.date, sorted[i].date) })
    IN  SubSeq(sorted, 1, n) \o <<e>> \o SubSeq(sorted, n + 1, Len(sorted))

RECURSIVE SortByDate(_)
\* list.sort(key=lambda e: e.get('date', '')): the key is the Date header, a
\* string
SortByDate(emails) ==
    IF emails = <<>> THEN <<>>
    ELSE InsertByDate(SortByDate(SubSeq(emails, 1, Len(emails) - 1)),
                      emails[Len(emails)])

group_emails_by_thread(emails) ==
    LET grouped == GroupInto(<<>>, emails)
    IN  [i \in 1..Len(grouped) |-> <<grouped[i][1], SortByDate(grouped[i][2])>>]

\* the action keywords of get_priority_threads
action_keywords == { "urgent", "asap", "today", "deadline", "action required" }

\* what the scorer reads of one message
MessageSignals(msg) ==
    [ whitelisted |-> is_whitelisted_sender(msg.from),
      priority    |-> has_priority_content(msg.subject, msg.body),
      action      |-> AnyIn(action_keywords,
                            Lower(msg.subject \o " " \o msg.body)) ]

\* MessageSignals on every message of the model
Signals == [msg \in Messages |-> MessageSignals(msg)]

\* a scorer that adds 50 for every email with priority content
ThreadScore_CountEach(emails) ==
    LET latest_email == emails[Len(emails)]
    IN  (IF Signals[latest_email].whitelisted THEN 100 ELSE 0)
      + 50 * Cardinality({ i \in 1..Len(emails) : Signals[emails[i]].priority })
      + (IF Len(emails) > 1 THEN Len(emails) * 10 ELSE 0)
      + (IF Signals[latest_email].action THEN 30 ELSE 0)

\* lines 104-131
ThreadScore(emails) ==
    LET latest_email == emails[Len(emails)]
    IN  (IF Signals[latest_email].whitelisted THEN 100 ELSE 0)
      + (IF \E i \in 1..Len(emails) : Signals[emails[i]].priority
         THEN 50 ELSE 0)
      + (IF Len(emails) > 1 THEN Len(emails) * 10 ELSE 0)
      + (IF Signals[latest_email].action THEN 30 ELSE 0)

\* a sort that puts a thread before the threads of equal score
InsertByScore_Unstable(sorted, thread) ==
    LET n == Cardinality({ i \in 1..Len(sorted) :
                             ThreadScore(sorted[i][2]) > ThreadScore(thread[2]) })
    IN  SubSeq(sorted, 1, n) \o <<thread>> \o SubSeq(sorted, n + 1, Len(sorted))

\* the threads behind every thread whose score is not smaller
InsertByScore(sorted, thread) ==
    LET n == Cardinality({ i \in 1..Len(sorted) :
                             ThreadScore(sorted[i][2]) >= ThreadScore(thread[2]) })
    IN  SubSeq(sorted, 1, n) \o <<thread>> \o SubSeq(sorted, n + 1, Len(sorted))

RECURSIVE SortByScore(_)
\* scored_threads.sort(reverse=True, key=lambda x: x[0]), a stable sort
SortByScore(dict) ==
    IF dict = <<>> THEN <<>>
    ELSE InsertByScore(SortByScore(SubSeq(dict, 1, Len(dict) - 1)),
                       dict[Len(dict)])

get_priority_threads(dict, max_threads) ==
    LET sorted == SortByScore(dict)
    IN  SubSeq(sorted, 1, IF Len(sorted) < max_threads THEN Len(sorted)
                           ELSE max_threads)

(***************************************************************************)
(* ComprehensiveAnalyzer: one thread's analysis                            *)
(***************************************************************************)
RECURSIVE Remove(_, _)
\* s.replace(sub, '')
Remove(s, sub) ==
    IF Len(s) < Len(sub) THEN s
    ELSE IF StartsWith(s, sub) THEN Remove(DropFirst(s, Len(sub)), sub)
    ELSE SubSeq(s, 1, 1) \o Remove(DropFirst(s, 1), sub)

RECURSIVE LStripChars(_, _)
\* s.lstrip(chars)
LStripChars(s, chars) ==
    IF s # "" /\ Contains(chars, SubSeq(s, 1, 1))
    THEN LStripChars(DropFirst(s, 1), chars)
    ELSE s

\* the headers a continuation line must not start with
section_heads ==
    { "SUMMARY", "OUTCOME", "ACTION", "FOLLOW", "PRIORITY", "CONTEXT" }

\* the analysis dict before the first line is read; current_section is the
\* loop's local, None being the string "None"
NewAnalysis(emails, thread_subject) ==
    [ summary          |-> "",
      outcome          |-> "",
      action_items     |-> <<>>,
      follow_up_needed |-> FALSE,
      follow_up_reason |-> "",
      priority         |-> "medium",
      priority_reason  |-> "",
      context          |-> "",
      thread_subject   |-> thread_subject,
      email_count      |-> Len(emails),
      latest_sender    |-> IF emails # <<>> THEN emails[Len(emails)].from
                           ELSE "Unknown",
      latest_date      |-> IF emails # <<>> THEN emails[Len(emails)].date
                           ELSE "Unknown",
      current_section  |-> "None" ]

\* one turn of the loop of lines 150-196; the bullet character outside ASCII
\* is left out of the two places that name it
ParseLine(a, raw) ==
    LET line == Strip(raw)
        IsItem(t) == t # "" /\ Lower(t) # "none"
    IN  IF line = "" THEN a
        ELSE IF StartsWith(line, "SUMMARY:")
        THEN [a EXCEPT !.current_section = "summary",
                       !.summary = Strip(Remove(line, "SUMMARY:"))]
        ELSE IF StartsWith(line, "OUTCOME:")
        THEN [a EXCEPT !.current_section = "outcome",
                       !.outcome = Strip(Remove(line, "OUTCOME:"))]
        ELSE IF StartsWith(line, "ACTION ITEMS:")
        THEN LET action_text == Strip(Remove(line, "ACTION ITEMS:"))
             IN  [a EXCEPT !.current_section = "action_items",
                           !.action_items =
                               IF IsItem(action_text)
                               THEN Append(@, action_text) ELSE @]
        ELSE IF StartsWith(line, "FOLLOW_UP:") \/ StartsWith(line, "FOLLOW-UP:")
        THEN LET follow_text ==
                     Strip(Remove(Remove(line, "FOLLOW_UP:"), "FOLLOW-UP:"))
             IN  [a EXCEPT !.current_section = "follow_up",
                           !.follow_up_needed =
                               StartsWith(Lower(follow_text), "yes"),
                           !.follow_up_reason = follow_text]
        ELSE IF StartsWith(line, "PRIORITY:")
        THEN LET priority_text == Strip(Remove(line, "PRIORITY:"))
             IN  [a EXCEPT !.current_section = "priority",
                           !.priority =
                               IF Contains(Lower(priority_text), "high")
                               THEN "high"
                               ELSE IF Contains(Lower(priority_text), "low")
                               THEN "low"
                               ELSE "medium",
                           !.priority_reason = priority_text]
        ELSE IF StartsWith(line, "CONTEXT:")
        THEN [a EXCEPT !.current_section = "context",
                       !.context = Strip(Remove(line, "CONTEXT:"))]
        ELSE IF /\ a.current_section = "action_items"
                /\ (StartsWith(line, "-") \/ StartsWith(line, "*"))
        THEN LET item == Strip(LStripChars(line, "-* "))
             IN  [a EXCEPT !.action_items =
                               IF IsItem(item) THEN Append(@, item) ELSE @]
        ELSE IF /\ a.current_section # "None"
                /\ \A head \in section_heads : ~StartsWith(line, head)
        THEN IF a.current_section = "summary"
             THEN [a EXCEPT !.summary = @ \o " " \o line]
             ELSE IF a.current_section = "outcome"
             THEN [a EXCEPT !.outcome = @ \o " " \o line]
             ELSE IF a.current_section = "context"
             THEN [a EXCEPT !.context = @ \o " " \o line]
             ELSE a
        ELSE a

RECURSIVE ParseLines(_, _)
ParseLines(a, lines) ==
    IF lines = <<>> THEN a
    ELSE ParseLines(ParseLine(a, Head(lines)), Tail(lines))

\* the keys of the returned dict
AnalysisKeys ==
    { "summary", "outcome", "action_items", "follow_up_needed",
      "follow_up_reason", "priority", "priority_reason", "context",
      "thread_subject", "email_count", "latest_sender", "latest_date" }

\* analysis_text is the sequence of its lines
_parse_analysis(analysis_text, emails, thread_subject) ==
    LET a == ParseLines(NewAnalysis(emails, thread_subject), analysis_text)
    IN  [k \in AnalysisKeys |-> a[k]]

_fallback_analysis(emails, thread_subject) ==
    [ summary          |-> "Email thread: " \o thread_subject,
      outcome          |-> "Unknown - AI analysis unavailable",
      action_items     |-> << "Review email thread and determine action needed" >>,
      follow_up_needed |-> TRUE,
      follow_up_reason |-> "Manual review required",
      priority         |-> "medium",
      priority_reason  |-> "Default priority - manual review needed",
      context          |-> ToString(Len(emails)) \o " emails in thread",
      thread_subject   |-> thread_subject,
      email_count      |-> Len(emails),
      latest_sender    |-> IF emails # <<>> THEN emails[Len(emails)].from
                           ELSE "Unknown",
      latest_date      |-> IF emails # <<>> THEN emails[Len(emails)].date
                           ELSE "Unknown" ]

\* what the request to the summarization service comes back with: an exception
\* (timeout, connection error, an answer without message content), a status
\* other than 200, a 200 without choices, or a 200 with the answer's lines
Responses ==
    { [kind |-> "exception",  content |-> <<>>],
      [kind |-> "http_error", content |-> <<>>],
      [kind |-> "no_choices", content |-> <<>>],
      [kind |-> "ok", content |->
          << "SUMMARY: The teacher asks for a signed slip.",
             "OUTCOME: Ongoing - no resolution yet",
             "ACTION ITEMS:",
             "- Sign the slip",
             "* None",
             "FOLLOW_UP: Yes - before Friday",
             "PRIORITY: High - due this week",
             "CONTEXT: Needed for the trip.",
             "No slip, no trip." >>],
      [kind |-> "ok", content |->
          << "SUMMARY: A store promotion.",
             "",
             "OUTCOME: Nothing to decide",
             "ACTION ITEMS: None",
             "FOLLOW-UP: No",
             "PRIORITY: Low - informational",
             "CONTEXT: Advertising." >>],
      [kind |-> "ok", content |->
          << "SUMMARY: A request for an answer.",
             "ACTION ITEMS: Reply to the sender",
             "FOLLOW_UP: yes, this week",
             "PRIORITY: Normal" >>],
      [kind |-> "ok", content |-> << "I cannot analyze this thread." >>] }

\* analyze_email_thread, given whether a key is configured and what the request
\* comes back with
analyze_email_thread(emails, thread_subject, has_key, response) ==
    IF ~has_key THEN _fallback_analysis(emails, thread_subject)
    ELSE IF response.kind = "ok"
    THEN _parse_analysis(response.content, emails, thread_subject)
    ELSE _fallback_analysis(emails, thread_subject)

(***************************************************************************)
(* The classifiers as pure functions: inputs drawn from bounded sets       *)
(***************************************************************************)
SenderFragments ==
    { "marketing@", "USPSInformeddelivery@", "Jane <jane@", "fcps.edu",
      "Amazon.com", "example.org" }

RECURSIVE SenderStrings(_)
\* the concatenations of 1..n fragments
SenderStrings(n) ==
    IF n = 0 THEN {}
    ELSE SenderFragments \cup
         { s \o f : s \in SenderStrings(n - 1), f \in SenderFragments }

Senders == SenderStrings(MaxSenderParts)

TextSubjects ==
    { "Field trip sale", "Flash sale", "Lunch menu", "RE: Budget" }

TextBodies ==
    { "Return the permission slip. Discount inside, save up to 50%",
      "Limited time offer, act now",
      "Please respond today" }

\* no Daily Plan note
NoNote ==
    [exists |-> FALSE, priority_actions |-> <<>>, this_week |-> <<>>,
     footer |-> <<>>]

NoCall == [fn |-> "none", value |-> FALSE]

\* an Amplenote account with a valid token and no note
NoAccount == [token |-> "valid", notes |-> <<>>]

ClassifyInit ==
    /\ pc = "ready"
    /\ tasks = <<>>
    /\ events = <<>>
    /\ note = NoNote
    /\ runs = <<>>
    /\ todoist = <<>>
    /\ amplenote = NoAccount
    /\ arg \in [sender : Senders, subject : TextSubjects, body : TextBodies]
    /\ ret = NoCall
    /\ inbox = <<>>
    /\ summarizer = <<>>
    /\ urgent = <<>>
    /\ reference_emails = <<>>
    /\ seen_subjects = <<>>
    /\ threads = <<>>
    /\ thread_analyses = <<>>
    /\ plan = <<>>
    /\ lock = "free"
    /\ proc = <<>>
    /\ stats = <<>>

Returns(fn, value) ==
    /\ pc = "ready"
    /\ pc' = "returned"
    /\ ret' = [fn |-> fn, value |-> value]
    /\ UNCHANGED <<arg, inbox, summarizer, urgent, reference_emails,
                   seen_subjects, threads, thread_analyses, plan, lock, proc,
                   stats, tasks, events, note, runs,
                   todoist, amplenote>>

CallIsWhitelistedSender ==
    Returns("is_whitelisted_sender", is_whitelisted_sender(arg.sender))

CallIsImportantSender ==
    Returns("is_important_sender", is_important_sender(arg.sender))

CallHasPriorityContent ==
    Returns("has_priority_content", has_priority_content(arg.subject, arg.body))

CallIsUnimportantEmail ==
    Returns("is_unimportant_email",
            is_unimportant_email(arg.subject, arg.body, arg.sender))

CallIsReferenceEmail ==
    Returns("is_reference_email", is_reference_email(arg.subject, arg.body))

ClassifyNext ==
    \/ CallIsWhitelistedSender
    \/ CallIsImportantSender
    \/ CallHasPriorityContent
    \/ CallIsUnimportantEmail
    \/ CallIsReferenceEmail

ClassifySpec == ClassifyInit /\ [][ClassifyNext]_vars

\* a whitelist (suppression) substring occurs in the lower-cased sender:
\* the specification's own reading of "matches", section 4.1
HasWhitelistSubstring(sender) ==
    AnyIn({ Lower(d) : d \in whitelist_domains }, Lower(sender))

HasSuppressionSubstring(sender) ==
    AnyIn({ Lower(p) : p \in skip_senders }, Lower(sender))

HasSuppressionPhrase(subject, body) ==
    AnyIn({ Lower(k) : k \in skip_keywords }, Lower(subject \o " " \o body))

HasPriorityPhrase(subject, body) ==
    AnyIn({ Lower(k) : k \in priority_keywords }, Lower(subject \o " " \o body))

\* C7: every sender that contains a whitelist substring is an important
\* (trusted) sender, whatever suppression substring it also contains.
C7_WhitelistedSenderIsTrusted ==
    (/\ pc = "returned"
     /\ ret.fn = "is_important_sender"
     /\ HasWhitelistSubstring(arg.sender))
    => ret.value = TRUE

\* a whitelisted sender that also matches a suppression pattern was judged
C7_Witness ==
    /\ pc = "returned"
    /\ ret.fn = "is_important_sender"
    /\ HasWhitelistSubstring(arg.sender)
    /\ HasSuppressionSubstring(arg.sender)
    /\ ret.value = TRUE

\* C8: a text with priority content is never unimportant (suppressible),
\* even when a suppression phrase occurs in it too.
C8_PriorityContentNeverSuppressed ==
    (/\ pc = "returned"
     /\ ret.fn = "is_unimportant_email"
     /\ HasPriorityPhrase(arg.subject, arg.body))
    => ret.value = FALSE

\* "promotional + urgent": priority content and a suppression phrase, from a
\* sender that is not whitelisted
C8_Witness ==
    /\ pc = "returned"
    /\ ret.fn = "is_unimportant_email"
    /\ HasPriorityPhrase(arg.subject, arg.body)
    /\ HasSuppressionPhrase(arg.subject, arg.body)
    /\ ~HasWhitelistSubstring(arg.sender)
    /\ ret.value = FALSE

(***************************************************************************)
(* process_new, run on a mailbox                                           *)
(***************************************************************************)
EmptyPlan ==
    [do_now |-> <<>>, do_soon |-> <<>>, monitor |-> <<>>,
     reference_emails |-> <<>>, stats |-> <<>>]

\* the days around Today
Yesterday == "2026-11-01"

Tomorrow == "2026-11-03"

\* the tasks of the Todoist account: `due` is <<>> for a task without due date
\* (None) and <<date>> for one with
TaskFeed ==
    << [ id |-> "k1", content |-> "Pay the water bill", due |-> <<Yesterday>>,
         priority |-> 1 ],
       [ id |-> "k2", content |-> "Call the dentist", due |-> <<Today>>,
         priority |-> 4 ],
       [ id |-> "k3", content |-> "Clean the garage", due |-> <<>>,
         priority |-> 1 ],
       [ id |-> "k4", content |-> "Renew the passport", due |-> <<Tomorrow>>,
         priority |-> 3 ] >>

\* the events of the calendar as get_events returns them; the conference began
\* yesterday and has not ended
EventFeed ==
    << [ id |-> "v1", summary |-> "Conference", date |-> Yesterday,
         time |-> "All day" ],
       [ id |-> "v2", summary |-> "Dentist", date |-> Today,
         time |-> "03:00 PM" ],
       [ id |-> "v3", summary |-> "Recital", date |-> Tomorrow,
         time |-> "06:30 PM" ] >>

\* the longest task list and event list of a run
MaxFeed == 4

\* seq[:n]
FirstOf(seq, n) == SubSeq(seq, 1, IF n < Len(seq) THEN n ELSE Len(seq))

Init ==
    /\ pc = "start"
    /\ \E n \in 0..MaxFeed :
          /\ todoist = FirstOf(TaskFeed, n)
          /\ events = FirstOf(EventFeed, n)
    /\ tasks = <<>>
    /\ note = NoNote
    /\ runs = <<>>
    /\ amplenote = NoAccount
    /\ inbox \in { l \in Listings(Mailbox, MaxInbox) : Distinct(l) }
    /\ arg = <<>>
    /\ ret = NoCall
    /\ summarizer \in { [has_key |-> b] : b \in BOOLEAN }
    /\ urgent = <<>>
    /\ reference_emails = <<>>
    /\ seen_subjects = <<>>
    /\ threads = <<>>
    /\ thread_analyses = <<>>
    /\ plan = EmptyPlan
    /\ lock = "free"
    /\ proc = <<>>
    /\ stats = <<>>

\* a get_urgent_emails that appends to the reference emails it finds in place
FetchUrgentEmails_Accumulate ==
    /\ pc = "start"
    /\ pc' = "fetched"
    /\ LET got == get_urgent_emails(inbox)
       IN  /\ urgent' = got.urgent
           /\ reference_emails' = reference_emails \o got.reference_emails
    /\ UNCHANGED <<arg, ret, inbox, summarizer, seen_subjects, threads,
                   thread_analyses, plan, lock, proc, stats,
                   tasks, events, note, runs,
                   todoist, amplenote>>

\* lines 53-67: gmail.get_urgent_emails(days=30), which begins with an empty
\* reference_emails, then each email fetched again by id, which gives the same
\* message
FetchUrgentEmails ==
    /\ pc = "start"
    /\ pc' = "fetched"
    /\ LET got == get_urgent_emails(inbox)
       IN  /\ urgent' = got.urgent
           /\ reference_emails' = got.reference_emails
    /\ UNCHANGED <<arg, ret, inbox, summarizer, seen_subjects, threads,
                   thread_analyses, plan, lock, proc, stats,
                   tasks, events, note, runs,
                   todoist, amplenote>>

\* the emoji of the task titles and of the note title, which the character
\* set of this module lacks, spelled as words: U+1F3AF, U+23F0 and U+1F4CB
Target == "(target)"

Clock == "(clock)"

Clipboard == "(clipboard)"

\* the titles by which get_tasks and create_daily_plan_tasks know a daily plan
\* task, lines 202 and 336
daily_plan_prefixes ==
    { Clipboard \o " Daily Plan -", Target \o " TODAY:", Clock \o " SOON:" }

IsDailyPlanTask(task) ==
    \E prefix \in daily_plan_prefixes : StartsWith(task.content, prefix)

\* get_tasks, lines 195-206: the tasks of the account but the daily plan tasks
get_tasks(account) == SelectSeq(account, LAMBDA task : ~IsDailyPlanTask(task))

\* lines 69-75: todoist.get_tasks() and calendar.get_events() answer, or one of
\* them raises and process_new ends with the exception
FetchTodoistAndCalendar ==
    /\ pc = "fetched"
    /\ \E raised \in BOOLEAN :
          /\ pc' = IF raised THEN "raised" ELSE "gathered"
          /\ tasks' = IF raised THEN tasks ELSE get_tasks(todoist)
    /\ UNCHANGED <<arg, ret, inbox, summarizer, urgent, reference_emails,
                   seen_subjects, threads, thread_analyses, plan, lock, proc,
                   stats, events, note, runs,
                   todoist, amplenote>>

\* lines 83-129
DeduplicateEmails ==
    /\ pc = "gathered"
    /\ pc' = "deduplicated"
    /\ plan' = [EmptyPlan EXCEPT !.reference_emails = reference_emails]
    /\ seen_subjects' = Deduplicate(<<>>, urgent)
    /\ UNCHANGED <<arg, ret, inbox, summarizer, urgent, reference_emails,
                   threads, thread_analyses, lock, proc, stats,
                   tasks, events, note, runs,
                   todoist, amplenote>>

\* lines 131-215
AddEmailsToPlan ==
    /\ pc = "deduplicated"
    /\ pc' = "emails_added"
    /\ plan' = [plan EXCEPT !.do_now = @ \o EmailItems(DictValues(seen_subjects))]
    /\ UNCHANGED <<arg, ret, inbox, summarizer, urgent, reference_emails,
                   seen_subjects, threads, thread_analyses, lock, proc, stats,
                   tasks, events, note, runs,
                   todoist, amplenote>>

\* the item of a task with a due date, lines 224-236
DueTaskItem(task) ==
    [ title    |-> task.content,
      source   |-> "Todoist",
      due      |-> task.due[1],
      priority |-> IF task.priority >= 3 THEN "high" ELSE "normal" ]

\* the item of a task without, lines 238-242
MonitorTaskItem(task) ==
    [title |-> task.content, source |-> "Todoist", priority |-> "low"]

\* lines 246-260
EventItem(event) ==
    [ title    |-> event.summary,
      source   |-> "Calendar",
      due      |-> event.date,
      time     |-> event.time,
      priority |-> "normal" ]

RECURSIVE AddTasks(_, _)
\* the loop of lines 220-242
AddTasks(p, ts) ==
    IF ts = <<>> THEN p
    ELSE LET task == Head(ts)
         IN  AddTasks(
                 IF task.due # <<>>
                 THEN IF task.due[1] = Today
                      THEN [p EXCEPT !.do_now = Append(@, DueTaskItem(task))]
                      ELSE IF task.due[1] # ""
                      THEN [p EXCEPT !.do_soon = Append(@, DueTaskItem(task))]
                      ELSE p
                 ELSE [p EXCEPT !.monitor = Append(@, MonitorTaskItem(task))],
                 Tail(ts))

RECURSIVE AddEvents(_, _)
\* the loop of lines 244-260
AddEvents(p, es) ==
    IF es = <<>> THEN p
    ELSE AddEvents(
             IF Head(es).date = Today
             THEN [p EXCEPT !.do_now = Append(@, EventItem(Head(es)))]
             ELSE [p EXCEPT !.do_soon = Append(@, EventItem(Head(es)))],
             Tail(es))

\* lines 217-260
AddTasksAndEvents ==
    /\ pc = "emails_added"
    /\ pc' = "categorized"
    /\ plan' = AddEvents(AddTasks(plan, tasks), events)
    /\ UNCHANGED <<arg, ret, inbox, summarizer, urgent, reference_emails,
                   seen_subjects, threads, thread_analyses, lock, proc, stats,
                   tasks, events, note, runs,
                   todoist, amplenote>>

\* lines 295-302
PlanStats(p, reference) ==
    [ total_items      |-> Len(p.do_now) + Len(p.do_soon) + Len(p.monitor),
      do_now           |-> Len(p.do_now),
      do_soon          |-> Len(p.do_soon),
      monitor          |-> Len(p.monitor),
      reference_emails |-> Len(reference),
      documents        |-> 0 ]

AddStatistics ==
    /\ pc = "categorized"
    /\ pc' = "counted"
    /\ plan' = [plan EXCEPT !.stats = PlanStats(plan, reference_emails)]
    /\ UNCHANGED <<arg, ret, inbox, summarizer, urgent, reference_emails,
                   seen_subjects, threads, thread_analyses, lock, proc, stats,
                   tasks, events, note, runs,
                   todoist, amplenote>>


\* item.get(key, default)
Get(item, key, default) ==
    IF key \in DOMAIN item THEN item[key] ELSE default

\* the items of the note's Priority Actions section
do_now_shown == 8

\* the items of its This Week section
do_soon_shown == 7

\* strptime(due_date, '%Y-%m-%d').strftime('%a %b %d') on the dates of the
\* model; the string itself when it is no such date
FormatDue(due_date) ==
    CASE due_date = "2026-11-01" -> "Sun Nov 01"
      [] due_date = "2026-11-02" -> "Mon Nov 02"
      [] due_date = "2026-11-03" -> "Tue Nov 03"
      [] OTHER -> due_date

\* one entry of Priority Actions: the numbered checkbox line, with the
\* ai_summary of an email that has one in place of its title, and the line of
\* the sender or the time beneath it
PriorityAction(item, i) ==
    LET source == Get(item, "source", "")
        ai_summary == Get(item, "ai_summary", None)
    IN  [ number |-> i,
          source |-> source,
          title  |-> IF source = "Email" /\ ai_summary \notin { None, "" }
                     THEN ai_summary ELSE item.title,
          detail |-> IF source = "Email"
                     THEN Strip(BeforeLt(Get(item, "from", "")))
                     ELSE IF source = "Calendar" THEN Get(item, "time", "")
                     ELSE "" ]

\* one entry of This Week: the checkbox line and the line of the due date
ThisWeekEntry(item) ==
    [ source |-> Get(item, "source", ""),
      title  |-> item.title,
      time   |-> Get(item, "time", ""),
      due    |-> FormatDue(Get(item, "due", "")) ]

\* a note that lists every item
RenderDailyNote_NoCap(p) ==
    [ exists           |-> TRUE,
      priority_actions |-> [i \in 1..Len(p.do_now) |->
                               PriorityAction(p.do_now[i], i)],
      this_week        |-> [i \in 1..Len(p.do_soon) |->
                               ThisWeekEntry(p.do_soon[i])],
      footer           |-> [ priority_actions |-> Len(p.do_now),
                             upcoming_items   |-> Len(p.do_soon) ] ]

\* the content update_daily_note_with_plan writes, lines 483-583
RenderDailyNote(p) ==
    LET shown_now == FirstOf(p.do_now, do_now_shown)
        shown_soon == FirstOf(p.do_soon, do_soon_shown)
    IN  [ exists           |-> TRUE,
          priority_actions |-> [i \in 1..Len(shown_now) |->
                                   PriorityAction(shown_now[i], i)],
          this_week        |-> [i \in 1..Len(shown_soon) |->
                                   ThisWeekEntry(shown_soon[i])],
          footer           |-> [ priority_actions |-> Len(p.do_now),
                                 upcoming_items   |-> Len(p.do_soon) ] ]

(***************************************************************************)
(* TodoistTools: the daily plan tasks                                      *)
(***************************************************************************)
\* bool(x) of a string or None
Truthy(x) == x \notin { None, "" }

RECURSIVE BeforeDot(_)
\* s.split('.')[0]
BeforeDot(s) ==
    IF s = "" \/ SubSeq(s, 1, 1) = "." THEN ""
    ELSE SubSeq(s, 1, 1) \o BeforeDot(SubSeq(s, 2, Len(s)))

RECURSIVE StripEach(_, _)
\* lines 357-359: every prefix is tried once, in the order of the list, and
\* the loop does not break
StripEach(title, i) ==
    IF i > Len(summary_prefixes) THEN title
    ELSE StripEach(
             IF StartsWith(title, summary_prefixes[i])
             THEN DropFirst(title, Len(summary_prefixes[i]))
             ELSE title,
             i + 1)

RECURSIVE FilterDoNow(_, _)
\* lines 344-366: the items about filing the inbox are skipped, and of the
\* items with one cleaned title only the first is kept
FilterDoNow(items, seen) ==
    IF items = <<>> THEN <<>>
    ELSE LET item == Head(items)
             lower == Lower(item.title)
             clean == Lower(StripEach(item.title, 1))
         IN  IF Contains(lower, "file") /\ Contains(lower, "inbox")
             THEN FilterDoNow(Tail(items), seen)
             ELSE IF clean \in seen THEN FilterDoNow(Tail(items), seen)
             ELSE <<item>> \o FilterDoNow(Tail(items), seen \cup { clean })

\* the local thread_context of create_daily_plan_tasks before its first
\* assignment
Unbound == "<unbound>"

\* the date Todoist gives a task created with that due_string
DueOf(due_string) ==
    CASE due_string = "today" -> Today
      [] due_string = "next week" -> "2026-11-09"
      [] OTHER -> due_string

\* create_task, lines 223-241: the task as the account holds it, without its
\* description; `call` tells which call of the planner created it
NewTask(id, content, due_string, priority, call) ==
    [ id |-> id, content |-> content, due |-> <<DueOf(due_string)>>,
      priority |-> priority, call |-> call ]

\* lines 371-405 and 414 for one item: the title of its task, and the local
\* thread_context when line 414 reads it, which the email branch assigns only
\* from an item that has one
DoNowTask(item, thread_context) ==
    LET source == Get(item, "source", "Unknown")
        time_info == IF Truthy(Get(item, "time", None))
                     THEN " at " \o item.time ELSE ""
        ai_summary == Get(item, "ai_summary", None)
        context == Get(item, "thread_context", None)
        sender == IF Truthy(Get(item, "from", None))
                  THEN Strip(BeforeLt(item.from)) ELSE "Unknown"
        first_sentence == Prefix(BeforeDot(context), 100)
        snippet == IF Truthy(context) /\ first_sentence # ""
                   THEN " - " \o first_sentence ELSE ""
        title == Target \o " " \o ai_summary \o " (from " \o sender \o ")"
                     \o snippet \o time_info
    IN  IF source = "Email" /\ Truthy(ai_summary)
        THEN [ content        |-> IF Len(title) > 250
                                  THEN Prefix(title, 247) \o "..." ELSE title,
               thread_context |-> IF Truthy(context) THEN context
                                  ELSE thread_context ]
        ELSE [ content        |-> Target \o " TODAY: "
                                      \o CleanSubject(item.title) \o time_info,
               thread_context |-> Get(item, "thread_context", "") ]

RECURSIVE CreateDoNow(_, _, _, _)
\* the loop of lines 370-442 over the items left: the tasks created, and
\* whether line 414 raised UnboundLocalError, which ends the loop
CreateDoNow(items, thread_context, created, call) ==
    IF items = <<>> THEN [created |-> created, raised |-> FALSE]
    ELSE LET item == Head(items)
             task == DoNowTask(item, thread_context)
             due == Get(item, "due", "today")
             id == "c" \o ToString(call) \o "n" \o ToString(Len(created) + 1)
         IN  IF task.thread_context = Unbound
             THEN [created |-> created, raised |-> TRUE]
             ELSE CreateDoNow(Tail(items), task.thread_context,
                              Append(created,
                                     NewTask(id, task.content, due, 4, call)),
                              call)

\* strptime(due_date, '%Y-%m-%d').strftime('%b %d') in brackets on the dates
\* of the model; nothing when the string is no such date
DueDisplay(due_date) ==
    CASE due_date = "2026-11-01" -> " (Nov 01)"
      [] due_date = "2026-11-02" -> " (Nov 02)"
      [] due_date = "2026-11-03" -> " (Nov 03)"
      [] OTHER -> ""

\* lines 446-470 for the i-th of the first three do_soon items
DoSoonTask(item, i, call) ==
    LET due_date == Get(item, "due", "")
    IN  NewTask("c" \o ToString(call) \o "s" \o ToString(i),
                Clock \o " SOON: " \o Prefix(item.title, 70)
                    \o DueDisplay(due_date),
                IF due_date # "" THEN due_date ELSE "next week",
                2, call)

\* the most do_now items that get a task, line 370
do_now_created == 5

\* the most do_soon items that get a task, line 446
do_soon_created == 3

\* what can go wrong with the requests of one call: nothing, the request for
\* the tasks, the first delete_task, the first create_task
TodoistOutcomes == { "ok", "fetch_fails", "delete_fails", "create_fails" }

\* create_daily_plan_tasks, lines 320-479: the account after the call and
\* the value returned
create_daily_plan_tasks(account, do_now_items, do_soon_items, outcome, call) ==
    LET kept == SelectSeq(account, LAMBDA task : ~IsDailyPlanTask(task))
        filtered == FirstOf(FilterDoNow(do_now_items, {}), do_now_created)
        now == CreateDoNow(filtered, Unbound, <<>>, call)
        top == FirstOf(do_soon_items, do_soon_created)
        \* a create_task that fails in the do_soon loop is logged and the
        \* loop goes on
        lost == IF outcome = "create_fails" /\ filtered = <<>> THEN 1 ELSE 0
        soon == [i \in 1..(Len(top) - (IF Len(top) > 0 THEN lost ELSE 0)) |->
                    DoSoonTask(top[i + lost], i + lost, call)]
    IN  IF outcome = "fetch_fails"
        THEN [account |-> account, returned |-> FALSE]
        ELSE IF outcome = "delete_fails" /\ Len(kept) < Len(account)
        THEN [account |-> account, returned |-> FALSE]
        ELSE IF outcome = "create_fails" /\ filtered # <<>>
        THEN [account |-> kept, returned |-> FALSE]
        ELSE IF now.raised
        THEN [account |-> kept \o now.created, returned |-> FALSE]
        ELSE [account |-> kept \o now.created \o soon, returned |-> TRUE]

\* lines 314-320: the tasks for the dashboard; the value returned is logged
CreateDailyPlanTasks ==
    /\ pc = "counted"
    /\ pc' = "tasks_created"
    /\ \E outcome \in TodoistOutcomes :
          LET call == create_daily_plan_tasks(todoist, plan.do_now,
                                              plan.do_soon, outcome,
                                              Len(runs) + 1)
          IN  /\ todoist' = call.account
              /\ ret' = [fn |-> "create_daily_plan_tasks",
                         value |-> call.returned]
    /\ UNCHANGED <<arg, inbox, summarizer, urgent, reference_emails,
                   seen_subjects, threads, thread_analyses, plan, lock, proc,
                   stats, tasks, events, note, runs, amplenote>>

(***************************************************************************)
(* AmplenoteTools: the daily plan note                                     *)
(***************************************************************************)
\* static_title, line 436
static_title == Clipboard \o " Daily Plan"

\* what can go wrong with the requests of one call: nothing; the token has
\* expired and get_notes refreshes it and asks again; the refresh fails too;
\* get_notes fails otherwise; delete_note fails, which it answers with False;
\* create_note fails. The loss of single lines by insert_content, which
\* answers False as well, is left out.
AmplenoteOutcomes ==
    { "ok", "refreshed", "refresh_fails", "get_notes_fails", "delete_fails",
      "create_fails" }

\* lines 444-461: the place of the first note with the static title, 0 if none
ExistingDailyPlan(notes) ==
    IF \E i \in 1..Len(notes) : notes[i].name = static_title
    THEN CHOOSE i \in 1..Len(notes) :
            /\ notes[i].name = static_title
            /\ \A j \in 1..(i - 1) : notes[j].name # static_title
    ELSE 0

\* the uuid of the next note the service creates
NewUuid(notes) ==
    IF notes = <<>> THEN 1
    ELSE 1 + (CHOOSE u \in { notes[i].uuid : i \in 1..Len(notes) } :
                 \A i \in 1..Len(notes) : notes[i].uuid <= u)

\* update_daily_note_with_plan, lines 434-590: the account after the call, the
\* note created last, and the value returned
update_daily_note_with_plan(account, last, p, outcome) ==
    LET found == ExistingDailyPlan(account.notes)
        deleted == found # 0 /\ outcome # "delete_fails"
        kept == IF deleted
                THEN SubSeq(account.notes, 1, found - 1)
                         \o SubSeq(account.notes, found + 1, Len(account.notes))
                ELSE account.notes
        fresh == [uuid |-> NewUuid(account.notes), name |-> static_title]
    IN  CASE outcome = "refresh_fails" ->
                [ account |-> [account EXCEPT !.token = "expired"],
                  note |-> last, returned |-> FALSE ]
          [] outcome = "get_notes_fails" ->
                [ account |-> [account EXCEPT !.token = "valid"],
                  note |-> last, returned |-> FALSE ]
          [] outcome = "create_fails" ->
                [ account |-> [token |-> "valid", notes |-> kept],
                  note |-> IF deleted THEN NoNote ELSE last,
                  returned |-> FALSE ]
          [] OTHER ->
                [ account |-> [ token |-> IF outcome = "refreshed"
                                          THEN "refreshed" ELSE "valid",
                                notes |-> Append(kept, fresh) ],
                  note |-> RenderDailyNote(p), returned |-> TRUE ]

\* lines 322-337: the note is updated, whatever fails is logged, and the plan
\* is returned
UpdateDailyNote ==
    /\ pc = "tasks_created"
    /\ pc' = "done"
    /\ \E outcome \in AmplenoteOutcomes :
          LET call == update_daily_note_with_plan(amplenote, note, plan,
                                                  outcome)
          IN  /\ amplenote' = call.account
              /\ note' = call.note
              /\ ret' = [fn |-> "update_daily_note_with_plan",
                         value |-> call.returned]
    /\ runs' = Append(runs, [tasks |-> tasks, stats |-> plan.stats])
    /\ UNCHANGED <<arg, inbox, summarizer, urgent, reference_emails,
                   seen_subjects, threads, thread_analyses, plan, lock, proc,
                   stats, tasks, events, todoist>>

Next ==
    \/ FetchUrgentEmails
    \/ FetchTodoistAndCalendar
    \/ DeduplicateEmails
    \/ AddEmailsToPlan
    \/ AddTasksAndEvents
    \/ AddStatistics
    \/ CreateDailyPlanTasks
    \/ UpdateDailyNote

Spec == Init /\ [][Next]_vars

(***************************************************************************)
(* process_new called several times in a row on the same accounts          *)
(***************************************************************************)
\* the calls of process_new in a row
MaxPasses == 2

\* the longest inbox of these runs
MaxRerunInbox == 1

\* the emails of these runs: a reply with a reference number, a school
\* closing, and an email without date
RerunMailbox == { msg \in Mailbox : msg.id \in { "m1", "m5", "m6" } }

RerunInit ==
    /\ pc = "start"
    /\ summarizer \in { [has_key |-> b] : b \in BOOLEAN }
    /\ \E n \in 0..MaxFeed :
          /\ todoist = FirstOf(TaskFeed, n)
          /\ events = FirstOf(EventFeed, n)
    /\ tasks = <<>>
    /\ note = NoNote
    /\ runs = <<>>
    /\ amplenote = NoAccount
    /\ inbox \in { l \in Listings(RerunMailbox, MaxRerunInbox) : Distinct(l) }
    /\ arg = <<>>
    /\ ret = NoCall
    /\ urgent = <<>>
    /\ reference_emails = <<>>
    /\ seen_subjects = <<>>
    /\ threads = <<>>
    /\ thread_analyses = <<>>
    /\ plan = EmptyPlan
    /\ lock = "free"
    /\ proc = <<>>
    /\ stats = <<>>

\* process_new is called again, by a caller that builds its tools anew or by
\* one that keeps its GmailTools; the accounts are as the last call left them
RunAgain ==
    /\ pc = "done"
    /\ Len(runs) < MaxPasses
    /\ pc' = "start"
    /\ reference_emails' \in { reference_emails, <<>> }
    /\ urgent' = <<>>
    /\ seen_subjects' = <<>>
    /\ tasks' = <<>>
    /\ plan' = EmptyPlan
    /\ ret' = NoCall
    /\ UNCHANGED <<arg, inbox, summarizer, threads, thread_analyses,
                   lock, proc, stats, events, note, runs,
                   todoist, amplenote>>

RerunNext == Next \/ RunAgain

RerunSpec == RerunInit /\ [][RerunNext]_vars

(***************************************************************************)
(* Claims about process_new                                                *)
(***************************************************************************)
\* the ids of the emails that survived deduplication
RetainedIds == { seen_subjects[i][2].id : i \in 1..Len(seen_subjects) }

UrgentIds == { urgent[i].id : i \in 1..Len(urgent) }

\* the emails behind the email items of the three buckets
BucketEmailIds ==
    { it.email_id :
        it \in { x \in { plan.do_now[i] : i \in 1..Len(plan.do_now) } \cup
                        { plan.do_soon[i] : i \in 1..Len(plan.do_soon) } \cup
                        { plan.monitor[i] : i \in 1..Len(plan.monitor) } :
                  x.source = "Email" } }

DoNowItems == { plan.do_now[i] : i \in 1..Len(plan.do_now) }

\* suppressed by its sender or its text, with neither override
Suppressed(msg) ==
    /\ ~HasWhitelistSubstring(msg.from)
    /\ ~HasPriorityPhrase(msg.subject, msg.body)
    /\ \/ HasSuppressionSubstring(msg.from)
       \/ HasSuppressionPhrase(msg.subject, msg.body)

\* C1: a suppressed email without override is never returned by
\* get_urgent_emails and never appears in a bucket of the plan.
C1_SuppressedNeverReturned ==
    pc # "start" =>
        \A i \in 1..Len(inbox) :
            Suppressed(inbox[i]) =>
                /\ inbox[i].id \notin UrgentIds
                /\ inbox[i].id \notin BucketEmailIds

HasParseableDate(email) == email.date \in DOMAIN HeaderTime

\* older than its category's cutoff: 24 hours for a school/event subject, 48
\* hours for any other
PastCutoff(email) ==
    LET age == NowHour - HeaderTime[email.date]
    IN  IF AnyIn(school_event_keywords, Lower(email.subject))
        THEN age > 24 ELSE age > 48

\* C3: an email with a parseable date is excluded from the plan when it is past
\* its category's cutoff and retained otherwise.
C3_FreshnessCutoff ==
    pc = "done" =>
        \A i \in 1..Len(seen_subjects) :
            LET email == seen_subjects[i][2]
            IN  HasParseableDate(email) =>
                    (email.id \in BucketEmailIds <=> ~PastCutoff(email))

\* C4: an email whose date is missing or unparseable is not dropped by the
\* freshness cutoff: it is in do_now with the item a fresh email gets.
C4_UnparseableDateRetained ==
    pc = "done" =>
        \A i \in 1..Len(seen_subjects) :
            LET email == seen_subjects[i][2]
            IN  ~HasParseableDate(email) => EmailItem(email) \in DoNowItems

\* a run that ended with an undated email in do_now
C4_Witness ==
    /\ pc = "done"
    /\ \E i \in 1..Len(seen_subjects) :
          /\ ~HasParseableDate(seen_subjects[i][2])
          /\ EmailItem(seen_subjects[i][2]) \in DoNowItems

Marked(email) == Contains(Lower(email.subject), "update:")

\* two emails on the same event, the second one UPDATE-marked, the first not
UpdatePair(plain, update) ==
    /\ SameEvent(Lower(plain.subject), Lower(update.subject))
    /\ Marked(update)
    /\ ~Marked(plain)

NoThirdSameEvent(i, j) ==
    \A k \in 1..Len(urgent) :
        k \notin {i, j} =>
            /\ ~SameEvent(Lower(urgent[k].subject), Lower(urgent[i].subject))
            /\ ~SameEvent(Lower(urgent[k].subject), Lower(urgent[j].subject))

PrefixPieces ==
    { "RE: ", "Re: ", "RE: [External] ", "FW: ", "Fwd: ", "Fw:" }

BaseSubjects == { "Budget review", "Field  trip permission " }

RECURSIVE PrefixedSubjects(_)
\* a base subject behind at most n pieces
PrefixedSubjects(n) ==
    IF n = 0 THEN BaseSubjects
    ELSE BaseSubjects \cup
         { piece \o s : piece \in PrefixPieces, s \in PrefixedSubjects(n - 1) }

NormalizeInit ==
    /\ pc = "ready"
    /\ tasks = <<>>
    /\ events = <<>>
    /\ note = NoNote
    /\ runs = <<>>
    /\ todoist = <<>>
    /\ amplenote = NoAccount
    /\ arg \in PrefixedSubjects(MaxPrefixes)
    /\ ret = NoCall
    /\ inbox = <<>>
    /\ summarizer = <<>>
    /\ urgent = <<>>
    /\ reference_emails = <<>>
    /\ seen_subjects = <<>>
    /\ threads = <<>>
    /\ thread_analyses = <<>>
    /\ plan = <<>>
    /\ lock = "free"
    /\ proc = <<>>
    /\ stats = <<>>

\* normalize_subject(x)
NormalizeOnce ==
    /\ pc = "ready"
    /\ pc' = "once"
    /\ ret' = [fn |-> "normalize_subject", value |-> normalize_subject(arg)]
    /\ UNCHANGED <<arg, inbox, summarizer, urgent, reference_emails,
                   seen_subjects, threads, thread_analyses, plan, lock, proc,
                   stats, tasks, events, note, runs,
                   todoist, amplenote>>

\* normalize_subject applied to the result of the first call
NormalizeTwice ==
    /\ pc = "once"
    /\ pc' = "twice"
    /\ ret' = [fn |-> "normalize_subject", first |-> ret.value,
               value |-> normalize_subject(ret.value)]
    /\ UNCHANGED <<arg, inbox, summarizer, urgent, reference_emails,
                   seen_subjects, threads, thread_analyses, plan, lock, proc,
                   stats, tasks, events, note, runs,
                   todoist, amplenote>>

NormalizeNext == NormalizeOnce \/ NormalizeTwice

NormalizeSpec == NormalizeInit /\ [][NormalizeNext]_vars

\* C6: normalize_subject is idempotent: normalizing a normalized subject
\* changes nothing.
C6_NormalizeIdempotent == pc = "twice" => ret.value = ret.first

(***************************************************************************)
(* process_new_comprehensive (run_process_new_v2.py), run on a mailbox     *)
(***************************************************************************)
\* get_priority_threads(all_threads, max_threads=15)
max_threads == 15

\* the tasks of an account that has seen earlier plans
OldPlanTasks ==
    << [ id |-> "k8", content |-> Clipboard \o " Plan of Sunday",
         due |-> <<Yesterday>>, priority |-> 1 ],
       [ id |-> "k9", content |-> "Answer the coach", due |-> <<Yesterday>>,
         priority |-> 4, labels |-> { "daily-plan" } ] >>

ThreadInit ==
    /\ pc = "start"
    /\ tasks = <<>>
    /\ events = <<>>
    /\ note = NoNote
    /\ runs = <<>>
    /\ todoist \in { <<>>, OldPlanTasks }
    /\ amplenote = NoAccount
    /\ inbox \in { l \in Listings(ThreadMailbox, MaxInbox) : Distinct(l) }
    /\ summarizer \in { [has_key |-> b] : b \in BOOLEAN }
    /\ arg = <<>>
    /\ ret = NoCall
    /\ urgent = <<>>
    /\ reference_emails = <<>>
    /\ seen_subjects = <<>>
    /\ threads = <<>>
    /\ thread_analyses = <<>>
    /\ plan = EmptyPlan
    /\ lock = "free"
    /\ proc = <<>>
    /\ stats = <<>>

\* step 1: thread_tools.get_thread_emails(days=14)
FetchThreads ==
    /\ pc = "start"
    /\ pc' = "grouped"
    /\ LET got == get_urgent_emails(inbox)
       IN  /\ urgent' = got.urgent
           /\ reference_emails' = got.reference_emails
           /\ threads' = group_emails_by_thread(got.urgent)
    /\ UNCHANGED <<arg, ret, inbox, summarizer, seen_subjects,
                   thread_analyses, plan, lock, proc, stats,
                   tasks, events, note, runs,
                   todoist, amplenote>>

\* step 2: the priority threads replace the grouped ones
SelectPriorityThreads ==
    /\ pc = "grouped"
    /\ pc' = "selected"
    /\ threads' = get_priority_threads(threads, max_threads)
    /\ UNCHANGED <<arg, ret, inbox, summarizer, urgent, reference_emails,
                   seen_subjects, thread_analyses, plan, lock, proc, stats,
                   tasks, events, note, runs,
                   todoist, amplenote>>

\* step 3, one turn of the loop: the next priority thread is analyzed
AnalyzeThread ==
    /\ pc = "selected"
    /\ Len(thread_analyses) < Len(threads)
    /\ \E response \in Responses :
          LET thread == threads[Len(thread_analyses) + 1]
          IN  thread_analyses' =
                  Append(thread_analyses,
                         analyze_email_thread(thread[2], thread[1],
                                              summarizer.has_key, response))
    /\ UNCHANGED <<pc, arg, ret, inbox, summarizer, urgent, reference_emails,
                   seen_subjects, threads, plan, lock, proc, stats,
                   tasks, events, note, runs,
                   todoist, amplenote>>

\* steps 4 and 5: todoist.get_tasks() and calendar.get_events() answer, or one
\* of them raises and the run ends with the exception
FetchTasksAndEvents ==
    /\ pc = "selected"
    /\ Len(thread_analyses) = Len(threads)
    /\ \E raised \in BOOLEAN : pc' = IF raised THEN "raised" ELSE "analyzed"
    /\ UNCHANGED <<arg, ret, inbox, summarizer, urgent, reference_emails,
                   seen_subjects, threads, thread_analyses, plan, lock, proc,
                   stats, tasks, events, note, runs,
                   todoist, amplenote>>

\* lines 124-133
BreakdownItem(analysis) ==
    [ subject      |-> analysis.thread_subject,
      summary      |-> analysis.summary,
      outcome      |-> analysis.outcome,
      action_items |-> analysis.action_items,
      follow_up    |-> IF analysis.follow_up_needed
                       THEN analysis.follow_up_reason ELSE None,
      context      |-> analysis.context,
      latest_from  |-> analysis.latest_sender,
      email_count  |-> analysis.email_count ]

\* the items of the analyses, in the order of the analyses
BreakdownItems(analyses) ==
    [i \in 1..Len(analyses) |-> BreakdownItem(analyses[i])]

\* lines 110-143
Breakdown(analyses) ==
    LET High(a) == a.priority = "high"
        Medium(a) == a.priority = "medium"
        Low(a) == a.priority \notin { "high", "medium" }
        FollowUp(a) == a.follow_up_needed
    IN  [ threads_analyzed  |-> Len(analyses),
          high_priority     |-> BreakdownItems(SelectSeq(analyses, High)),
          medium_priority   |-> BreakdownItems(SelectSeq(analyses, Medium)),
          low_priority      |-> BreakdownItems(SelectSeq(analyses, Low)),
          follow_ups_needed |-> BreakdownItems(SelectSeq(analyses, FollowUp)) ]

\* steps 6 and 7: the detailed breakdown, the value the run returns
Categorize ==
    /\ pc = "analyzed"
    /\ pc' = "categorized"
    /\ ret' = Breakdown(thread_analyses)
    /\ UNCHANGED <<arg, inbox, summarizer, urgent, reference_emails,
                   seen_subjects, threads, thread_analyses, plan, lock, proc,
                   stats, tasks, events, note, runs,
                   todoist, amplenote>>

\* lines 289-300
DoNowItem(item) ==
    [ title        |-> item.subject,
      source       |-> "Email Thread",
      summary      |-> item.summary,
      outcome      |-> item.outcome,
      action_items |-> item.action_items,
      context      |-> item.context,
      from         |-> item.latest_from,
      email_count  |-> item.email_count,
      priority     |-> "high" ]

\* lines 303-310
DoSoonItem(item) ==
    [ title        |-> item.subject,
      source       |-> "Email Thread",
      summary      |-> item.summary,
      action_items |-> item.action_items,
      priority     |-> "medium" ]

\* lines 272-311: the plan handed to amplenote.update_daily_note_with_plan
AmplenotePlan(breakdown, analyses, reference) ==
    [ do_now  |-> [i \in 1..Len(breakdown.high_priority) |->
                      DoNowItem(breakdown.high_priority[i])],
      do_soon |-> [i \in 1..Len(breakdown.medium_priority) |->
                      DoSoonItem(breakdown.medium_priority[i])],
      monitor |-> <<>>,
      reference_emails |-> reference,
      stats   |-> [ threads_analyzed |-> Len(analyses),
                    high_priority    |-> Len(breakdown.high_priority),
                    medium_priority  |-> Len(breakdown.medium_priority),
                    follow_ups       |-> Len(breakdown.follow_ups_needed) ] ]

\* the parameters of TodoistTools.create_task, todoist_tools.py line 212
create_task_parameters == { "content", "description", "priority", "due_string" }

\* the keywords of the calls of create_task in step 8, lines 198-204
create_task_keywords ==
    { "content", "description", "priority", "due_string", "labels" }

\* lines 176-225: the calls of create_task for the threads, one for every
\* high priority item with action items and for those of the first three
\* medium priority items
ThreadTaskCalls(breakdown) ==
    LET HasActions(item) == item.action_items # <<>>
        high == SelectSeq(breakdown.high_priority, HasActions)
        medium == SelectSeq(FirstOf(breakdown.medium_priority, 3), HasActions)
    IN  [i \in 1..Len(high) |->
            [ content |-> high[i].action_items[1], priority |-> 4,
              due_string |-> "today", keywords |-> create_task_keywords ]]
        \o [i \in 1..Len(medium) |->
            [ content |-> medium[i].action_items[1], priority |-> 3,
              due_string |-> "today", keywords |-> create_task_keywords ]]

\* lines 229-260: the calls of create_task for the calendar events
EventTaskCalls(evts) ==
    LET Special(event) ==
            \E word \in { "Cancelled", "Brunch", "Pickup", "Dr" } :
                Contains(event.summary, word)
        today_events == SelectSeq(evts, LAMBDA e : e.date = Today)
        others == SelectSeq(evts, LAMBDA e : e.date # Today)
        special == SelectSeq(today_events \o others, Special)
    IN  [i \in 1..Len(special) |->
            [ content |-> IF special[i].time \notin { "", "All day" }
                          THEN special[i].summary \o " at " \o special[i].time
                          ELSE special[i].summary,
              priority |-> IF \E word \in { "Cancelled", "Dr", "Pickup" } :
                                 Contains(special[i].summary, word)
                           THEN 4 ELSE 3,
              due_string |-> special[i].date,
              keywords |-> create_task_keywords ]]

RECURSIVE CreateTasks(_, _)
\* the calls made one after the other: a call with a keyword create_task
\* does not have raises TypeError, and no later call is made
CreateTasks(calls, created) ==
    IF calls = <<>> THEN created
    ELSE IF ~(Head(calls).keywords \subseteq create_task_parameters)
    THEN created
    ELSE CreateTasks(Tail(calls),
                     Append(created,
                            NewTask("d" \o ToString(Len(created) + 1),
                                    Head(calls).content,
                                    Head(calls).due_string,
                                    Head(calls).priority, 1)))

\* lines 166-171: the tasks step 8 deletes first
IsOldPlanTask(task) ==
    \/ StartsWith(task.content, Clipboard)
    \/ "daily-plan" \in Get(task, "labels", {})

\* step 8, lines 163-267: the old plan tasks are deleted and the new ones
\* created; whatever raises ends the step and is logged
CreateTodoistTasks ==
    /\ pc = "categorized"
    /\ pc' = "tasks_created"
    /\ \E outcome \in { "ok", "fetch_fails", "delete_fails" } :
          LET all_tasks == get_tasks(todoist)
              doomed == { all_tasks[i].id : i \in
                            { j \in 1..Len(all_tasks) :
                                IsOldPlanTask(all_tasks[j]) } }
              kept == SelectSeq(todoist, LAMBDA task : task.id \notin doomed)
          IN  todoist' =
                  IF outcome = "fetch_fails" THEN todoist
                  ELSE IF outcome = "delete_fails" /\ doomed # {} THEN todoist
                  ELSE kept \o CreateTasks(ThreadTaskCalls(ret)
                                               \o EventTaskCalls(events),
                                           <<>>)
    /\ UNCHANGED <<arg, ret, inbox, summarizer, urgent, reference_emails,
                   seen_subjects, threads, thread_analyses, plan, lock, proc,
                   stats, tasks, events, note, runs, amplenote>>

\* step 9: the plan is built and the note updated; whatever fails is logged
UpdateAmplenote ==
    /\ pc = "tasks_created"
    /\ pc' = "done"
    /\ plan' = AmplenotePlan(ret, thread_analyses, reference_emails)
    /\ \E outcome \in AmplenoteOutcomes :
          LET call == update_daily_note_with_plan(amplenote, note, plan',
                                                  outcome)
          IN  /\ amplenote' = call.account
              /\ note' = call.note
    /\ UNCHANGED <<arg, ret, inbox, summarizer, urgent, reference_emails,
                   seen_subjects, threads, thread_analyses, lock, proc, stats,
                   tasks, events, runs, todoist>>

ThreadNext ==
    \/ FetchThreads
    \/ SelectPriorityThreads
    \/ AnalyzeThread
    \/ FetchTasksAndEvents
    \/ Categorize
    \/ CreateTodoistTasks
    \/ UpdateAmplenote

ThreadSpec == ThreadInit /\ [][ThreadNext]_vars

(***************************************************************************)
(* Claims about process_new_comprehensive                                  *)
(***************************************************************************)
\* how many items of the plan carry the title
ItemsTitled(title) ==
      Cardinality({ i \in 1..Len(plan.do_now) : plan.do_now[i].title = title })
    + Cardinality({ i \in 1..Len(plan.do_soon) : plan.do_soon[i].title = title })
    + Cardinality({ i \in 1..Len(plan.monitor) : plan.monitor[i].title = title })

\* C9: when the run has produced its plan, every email of the mailbox that
\* comes from a whitelisted domain and whose text holds a suppression phrase
\* has an item in do_now, the item of its thread
C9_WhitelistedPromoInDoNow ==
    pc = "done" =>
        \A i \in 1..Len(inbox) :
            ( /\ HasWhitelistSubstring(inbox[i].from)
              /\ HasSuppressionPhrase(inbox[i].subject, inbox[i].body) )
            => \E k \in 1..Len(plan.do_now) :
                   plan.do_now[k].title = normalize_subject(inbox[i].subject)

\* three emails of one thread from a trusted sender outside the whitelist,
\* each holding priority content
PriorityThread(i, j, k) ==
    /\ i # j /\ j # k /\ i # k
    /\ normalize_subject(inbox[i].subject) = normalize_subject(inbox[j].subject)
    /\ normalize_subject(inbox[j].subject) = normalize_subject(inbox[k].subject)
    /\ \A n \in {i, j, k} :
          /\ ~is_whitelisted_sender(inbox[n].from)
          /\ is_important_sender(inbox[n].from)
          /\ has_priority_content(inbox[n].subject, inbox[n].body)

\* C10: when the run has produced its plan, three emails with the same
\* normalized subject from a trusted sender outside the whitelist, each with
\* priority content, have exactly one item in the plan, and it is in do_now
C10_ThreadIsOneDoNowItem ==
    pc = "done" =>
        \A i, j, k \in 1..Len(inbox) :
            PriorityThread(i, j, k) =>
                LET title == normalize_subject(inbox[i].subject)
                IN  /\ ItemsTitled(title) = 1
                    /\ \E n \in 1..Len(plan.do_now) :
                           plan.do_now[n].title = title

(***************************************************************************)
(* The entry points of a planning run: the scheduler's                     *)
(* run_planning_process, the command line's main, the server's process_new *)
(***************************************************************************)
\* the runs one scheduler process starts
MaxRuns == 2

\* two scheduler processes, each with its own `stats` and its own FileLock
\* object on the one lock file
Schedulers == { "scheduler1", "scheduler2" }

Processes == Schedulers \cup { "cli", "server" }

RunInit ==
    /\ proc = [p \in Processes |-> "idle"]
    /\ lock = "free"
    /\ stats = [s \in Schedulers |->
                   [total_runs |-> 0, successful_runs |-> 0, failed_runs |-> 0]]
    /\ pc = "start"
    /\ tasks = <<>>
    /\ events = <<>>
    /\ note = NoNote
    /\ runs = <<>>
    /\ todoist = <<>>
    /\ amplenote = NoAccount
    /\ inbox = <<>>
    /\ arg = <<>>
    /\ ret = NoCall
    /\ summarizer = <<>>
    /\ urgent = <<>>
    /\ reference_emails = <<>>
    /\ seen_subjects = <<>>
    /\ threads = <<>>
    /\ thread_analyses = <<>>
    /\ plan = EmptyPlan

\* a scheduled time (or the start with run_now) calls run_planning_process,
\* which waits for the lock for at most one second
SchedulerTrigger(s) ==
    /\ proc[s] = "idle"
    /\ stats[s].total_runs < MaxRuns
    /\ proc' = [proc EXCEPT ![s] = "acquiring"]
    /\ UNCHANGED <<pc, arg, ret, inbox, summarizer, urgent, reference_emails,
                   seen_subjects, threads, thread_analyses, plan, lock, stats,
                   tasks, events, note, runs,
                   todoist, amplenote>>

\* lock.acquire(timeout=1) succeeds: lines 53-61, up to the call of
\* process_new_comprehensive
SchedulerAcquire(s) ==
    /\ proc[s] = "acquiring"
    /\ lock = "free"
    /\ lock' = s
    /\ stats' = [stats EXCEPT ![s].total_runs = @ + 1]
    /\ proc' = [proc EXCEPT ![s] = "running"]
    /\ UNCHANGED <<pc, arg, ret, inbox, summarizer, urgent, reference_emails,
                   seen_subjects, threads, thread_analyses, plan,
                   tasks, events, note, runs,
                   todoist, amplenote>>

\* a skipped run that is counted
SchedulerTimeout_CountsRun(s) ==
    /\ proc[s] = "acquiring"
    /\ lock # "free"
    /\ stats' = [stats EXCEPT ![s].total_runs = @ + 1]
    /\ proc' = [proc EXCEPT ![s] = "idle"]
    /\ UNCHANGED <<pc, arg, ret, inbox, summarizer, urgent, reference_emails,
                   seen_subjects, threads, thread_analyses, plan, lock,
                   tasks, events, note, runs,
                   todoist, amplenote>>

\* the lock stays held for the second: Timeout, the run is skipped
SchedulerTimeout(s) ==
    /\ proc[s] = "acquiring"
    /\ lock # "free"
    /\ proc' = [proc EXCEPT ![s] = "idle"]
    /\ UNCHANGED <<pc, arg, ret, inbox, summarizer, urgent, reference_emails,
                   seen_subjects, threads, thread_analyses, plan, lock, stats,
                   tasks, events, note, runs,
                   todoist, amplenote>>

\* process_new_comprehensive returns: lines 63-70, then the with block ends
RunSucceeds(s) ==
    /\ proc[s] = "running"
    /\ stats' = [stats EXCEPT ![s].successful_runs = @ + 1]
    /\ lock' = "free"
    /\ proc' = [proc EXCEPT ![s] = "idle"]
    /\ UNCHANGED <<pc, arg, ret, inbox, summarizer, urgent, reference_emails,
                   seen_subjects, threads, thread_analyses, plan,
                   tasks, events, note, runs,
                   todoist, amplenote>>

\* a failing run that is not counted as failed
RunFails_Uncounted(s) ==
    /\ proc[s] = "running"
    /\ lock' = "free"
    /\ proc' = [proc EXCEPT ![s] = "idle"]
    /\ UNCHANGED <<pc, arg, ret, inbox, summarizer, urgent, reference_emails,
                   seen_subjects, threads, thread_analyses, plan, stats,
                   tasks, events, note, runs,
                   todoist, amplenote>>

\* a failing run that leaves the with block without releasing the lock
RunFails_KeepsLock(s) ==
    /\ proc[s] = "running"
    /\ stats' = [stats EXCEPT ![s].failed_runs = @ + 1]
    /\ proc' = [proc EXCEPT ![s] = "idle"]
    /\ UNCHANGED <<pc, arg, ret, inbox, summarizer, urgent, reference_emails,
                   seen_subjects, threads, thread_analyses, plan, lock,
                   tasks, events, note, runs,
                   todoist, amplenote>>

\* process_new_comprehensive raises: the with block ends, then lines 74-78
RunFails(s) ==
    /\ proc[s] = "running"
    /\ lock' = "free"
    /\ stats' = [stats EXCEPT ![s].failed_runs = @ + 1]
    /\ proc' = [proc EXCEPT ![s] = "idle"]
    /\ UNCHANGED <<pc, arg, ret, inbox, summarizer, urgent, reference_emails,
                   seen_subjects, threads, thread_analyses, plan,
                   tasks, events, note, runs,
                   todoist, amplenote>>

\* run_process_new_v2.main calls process_new_comprehensive
CliStart ==
    /\ proc["cli"] = "idle"
    /\ proc' = [proc EXCEPT !["cli"] = "running"]
    /\ UNCHANGED <<pc, arg, ret, inbox, summarizer, urgent, reference_emails,
                   seen_subjects, threads, thread_analyses, plan, lock, stats,
                   tasks, events, note, runs,
                   todoist, amplenote>>

\* it returns or raises
CliEnd ==
    /\ proc["cli"] = "running"
    /\ proc' = [proc EXCEPT !["cli"] = "idle"]
    /\ UNCHANGED <<pc, arg, ret, inbox, summarizer, urgent, reference_emails,
                   seen_subjects, threads, thread_analyses, plan, lock, stats,
                   tasks, events, note, runs,
                   todoist, amplenote>>

\* the server's process_new tool is called: _process_new starts
ServerStart ==
    /\ proc["server"] = "idle"
    /\ proc' = [proc EXCEPT !["server"] = "running"]
    /\ UNCHANGED <<pc, arg, ret, inbox, summarizer, urgent, reference_emails,
                   seen_subjects, threads, thread_analyses, plan, lock, stats,
                   tasks, events, note, runs,
                   todoist, amplenote>>

\* it returns its plan or raises
ServerEnd ==
    /\ proc["server"] = "running"
    /\ proc' = [proc EXCEPT !["server"] = "idle"]
    /\ UNCHANGED <<pc, arg, ret, inbox, summarizer, urgent, reference_emails,
                   seen_subjects, threads, thread_analyses, plan, lock, stats,
                   tasks, events, note, runs,
                   todoist, amplenote>>

RunNext ==
    \/ \E s \in Schedulers : SchedulerTrigger(s)
    \/ \E s \in Schedulers : SchedulerAcquire(s)
    \/ \E s \in Schedulers : SchedulerTimeout(s)
    \/ \E s \in Schedulers : RunSucceeds(s)
    \/ \E s \in Schedulers : RunFails(s)
    \/ CliStart
    \/ CliEnd
    \/ ServerStart
    \/ ServerEnd

RunSpec == RunInit /\ [][RunNext]_vars

\* the planning runs in progress
Running == { p \in Processes : proc[p] = "running" }

\* C2: at no time are two planning runs in progress, whichever entry points
\* started them
C2_NoConcurrentRuns == Cardinality(Running) <= 1

(***************************************************************************)
(* group_emails_by_thread and get_priority_threads as pure functions       *)
(***************************************************************************)
\* the largest cutoff max_threads a caller passes
MaxK == 2

RankInit ==
    /\ pc = "ready"
    /\ tasks = <<>>
    /\ events = <<>>
    /\ note = NoNote
    /\ runs = <<>>
    /\ todoist = <<>>
    /\ amplenote = NoAccount
    /\ inbox \in { l \in Listings(ThreadMailbox \cup ReplyMailbox, MaxInbox) :
                     Distinct(l) }
    /\ arg \in { [max_threads |-> k] : k \in 0..MaxK }
    /\ ret = NoCall
    /\ summarizer = <<>>
    /\ urgent = <<>>
    /\ reference_emails = <<>>
    /\ seen_subjects = <<>>
    /\ threads = <<>>
    /\ thread_analyses = <<>>
    /\ plan = EmptyPlan
    /\ lock = "free"
    /\ proc = <<>>
    /\ stats = <<>>

\* group_emails_by_thread(emails)
CallGroupEmailsByThread ==
    /\ pc = "ready"
    /\ pc' = "grouped"
    /\ threads' = group_emails_by_thread(inbox)
    /\ ret' = [fn |-> "group_emails_by_thread", value |-> threads']
    /\ UNCHANGED <<arg, inbox, summarizer, urgent, reference_emails,
                   seen_subjects, thread_analyses, plan, lock, proc, stats,
                   tasks, events, note, runs,
                   todoist, amplenote>>

\* get_priority_threads(threads, max_threads): the returned dict, and the score
\* the loop of lines 101-133 gave each thread, in the order of `threads`
CallGetPriorityThreads ==
    /\ pc = "grouped"
    /\ pc' = "ranked"
    /\ ret' = [ fn     |-> "get_priority_threads",
                value  |-> get_priority_threads(threads, arg.max_threads),
                scores |-> [i \in 1..Len(threads) |->
                               ThreadScore(threads[i][2])] ]
    /\ UNCHANGED <<arg, inbox, summarizer, urgent, reference_emails,
                   seen_subjects, threads, thread_analyses, plan, lock, proc,
                   stats, tasks, events, note, runs,
                   todoist, amplenote>>

RankNext == CallGroupEmailsByThread \/ CallGetPriorityThreads

RankSpec == RankInit /\ [][RankNext]_vars

\* the generic urgency words, in any case
HasGenericUrgencyWord(subject, body) ==
    AnyIn({ "urgent", "asap", "deadline", "today", "action required" },
          Lower(subject \o " " \o body))

\* the sum of the four contributions, for a thread whose latest email is its
\* last one
ScoreOfContributions(emails) ==
    LET latest == emails[Len(emails)]
        whitelisted == HasWhitelistSubstring(latest.from)
        priority == \E i \in 1..Len(emails) :
                        HasPriorityPhrase(emails[i].subject, emails[i].body)
        urgency == HasGenericUrgencyWord(latest.subject, latest.body)
    IN  (IF whitelisted THEN 100 ELSE 0) + (IF priority THEN 50 ELSE 0)
      + (IF Len(emails) > 1 THEN 10 * Len(emails) ELSE 0)
      + (IF urgency THEN 30 ELSE 0)

PositionIn(dict, subject) ==
    IF DictHas(dict, subject)
    THEN CHOOSE i \in 1..Len(dict) : dict[i][1] = subject
    ELSE 0

\* thread a of `threads` ranks before thread b: a higher score, or the same
\* score and an earlier place in the grouping order
RanksBefore(a, b) ==
    \/ ret.scores[a] > ret.scores[b]
    \/ ret.scores[a] = ret.scores[b] /\ a < b

\* C12: get_priority_threads returns min(K, number of threads) threads of the
\* grouping, in descending score order with ties in grouping order, and every
\* returned thread ranks before every thread left out
C12_TopKStableRanking ==
    pc = "ranked" =>
        LET chosen == ret.value
            place == [n \in 1..Len(chosen) |-> PositionIn(threads, chosen[n][1])]
        IN  /\ Len(chosen) = IF arg.max_threads < Len(threads)
                             THEN arg.max_threads ELSE Len(threads)
            /\ \A n \in 1..Len(chosen) :
                  /\ place[n] # 0
                  /\ chosen[n] = threads[place[n]]
            /\ \A n, k \in 1..Len(chosen) :
                  n < k => RanksBefore(place[n], place[k])
            /\ \A n \in 1..Len(chosen), t \in 1..Len(threads) :
                  (\A k \in 1..Len(chosen) : place[k] # t)
                      => RanksBefore(place[n], t)

\* two threads with the same score, of which the cutoff lets one through
C12_Witness ==
    /\ pc = "ranked"
    /\ Len(ret.value) = 1
    /\ \E t \in 1..Len(threads) :
          /\ threads[t][1] # ret.value[1][1]
          /\ ret.scores[t] = ret.scores[PositionIn(threads, ret.value[1][1])]

\* C13: in every thread of group_emails_by_thread the emails are in the order
\* of their received time, oldest first, and emails of equal time keep their
\* input order
C13_ThreadIsChronological ==
    pc \in { "grouped", "ranked" } =>
        \A t \in 1..Len(threads) :
            \A i, j \in 1..Len(threads[t][2]) :
                LET a == threads[t][2][i]
                    b == threads[t][2][j]
                    InputPlace(e) == CHOOSE n \in 1..Len(inbox) : inbox[n] = e
                IN  (i < j /\ HasParseableDate(a) /\ HasParseableDate(b)) =>
                        /\ HeaderTime[a.date] <= HeaderTime[b.date]
                        /\ HeaderTime[a.date] = HeaderTime[b.date]
                               => InputPlace(a) < InputPlace(b)

(***************************************************************************)
(* Claims about the normalization of replies and forwards                  *)
(***************************************************************************)
RECURSIVE ChainsOnto(_, _)
\* the subject `original` behind at most n reply/forward prefixes
ChainsOnto(original, n) ==
    IF n = 0 THEN { original }
    ELSE { original } \cup
         { piece \o s : piece \in PrefixPieces, s \in ChainsOnto(original, n - 1) }

\* C14: a subject made of an original subject behind one or more of the listed
\* reply/forward prefixes normalizes to what the original subject normalizes
\* to, and so falls in the original's thread
C14_ReplyNormalizesToOriginal ==
    pc = "once" =>
        \A original \in BaseSubjects :
            (arg \in ChainsOnto(original, MaxPrefixes) /\ arg # original)
                => ret.value = normalize_subject(original)

(***************************************************************************)
(* Claims about the buckets, the statistics and the note of process_new    *)
(***************************************************************************)
\* how many items of the bucket come from that source under that title
InBucket(bucket, source, title) ==
    Cardinality({ i \in 1..Len(bucket) :
                    bucket[i].source = source /\ bucket[i].title = title })

\* the item of that source and title is in exactly one bucket: do_now if and
\* only if today, do_soon if and only if later, monitor if and only if nodue
PlacedByDue(source, title, today, later, nodue) ==
    LET now == InBucket(plan.do_now, source, title)
        soon == InBucket(plan.do_soon, source, title)
        watch == InBucket(plan.monitor, source, title)
    IN  /\ now + soon + watch = 1
        /\ now = 1 <=> today
        /\ soon = 1 <=> later
        /\ watch = 1 <=> nodue

\* C15: once tasks and events are categorized, each of them is in exactly one
\* bucket: do_now if and only if it is due today, do_soon if and only if it is
\* due after today, monitor if and only if it is a task without due date
C15_BucketByDueDate ==
    pc \in { "categorized", "counted", "tasks_created", "done" } =>
        /\ \A i \in 1..Len(tasks) :
              LET due == tasks[i].due
              IN  PlacedByDue("Todoist", tasks[i].content,
                              due # <<>> /\ due[1] = Today,
                              due # <<>> /\ StrLess(Today, due[1]),
                              due = <<>>)
        /\ \A i \in 1..Len(events) :
              PlacedByDue("Calendar", events[i].summary,
                          events[i].date = Today,
                          StrLess(Today, events[i].date),
                          FALSE)

\* C17: after get_urgent_emails, every fetched email for which
\* is_reference_email is true has its entry in reference_emails, whether it
\* was kept or dropped
C17_ReferenceEmailsIndependent ==
    pc \in { "fetched", "gathered", "deduplicated", "emails_added",
             "categorized", "counted", "tasks_created", "done" } =>
        \A i \in 1..Len(inbox) :
            is_reference_email(inbox[i].subject, inbox[i].body) =>
                \E k \in 1..Len(reference_emails) :
                    reference_emails[k].id = inbox[i].id

\* C18: the runs of process_new made in a row on the same fetched items end
\* with the same statistics
C18_RunsHaveSameStats ==
    \A i, j \in 1..Len(runs) :
        runs[i].tasks = runs[j].tasks => runs[i].stats = runs[j].stats

\* a second run has ended, with reference emails and items to count
C18_Witness ==
    /\ Len(runs) = 2
    /\ runs[2].stats.reference_emails >= 1
    /\ runs[2].stats.total_items >= 1
    /\ runs[2].tasks # <<>>
    /\ runs[2].tasks = runs[1].tasks

(***************************************************************************)
(* The end of process_new on plans up to the display caps and beyond       *)
(***************************************************************************)
\* the most emails of a plan
MaxPlanEmails == 9

\* the most tasks due later
MaxPlanSoon == 8

\* the most tasks due today, tasks without due date, events of today and
\* events of a later day
MaxPlanOther == 1

PlanEmail(i) ==
    [ id |-> "p" \o ToString(i), from |-> Fcps,
      subject |-> "Notice " \o ToString(i), body |-> "Details follow.",
      date |-> "Mon, 02 Nov 2026 08:00:00 +0000" ]

PlanTask(i, due) ==
    [ id |-> "q" \o ToString(i), content |-> "Task " \o ToString(i),
      due |-> due, priority |-> 1 ]

PlanEvent(i, date) ==
    [ id |-> "w" \o ToString(i), summary |-> "Event " \o ToString(i),
      date |-> date, time |-> "09:00 AM" ]

\* the state after lines 217-260 of a run with e retained emails, tasks due
\* today, later and never, and events of today and of tomorrow
DisplayInit ==
    /\ pc = "categorized"
    /\ summarizer \in { [has_key |-> b] : b \in BOOLEAN }
    /\ \E e \in 0..MaxPlanEmails, later \in 0..MaxPlanSoon,
          today, never, here, there \in 0..MaxPlanOther :
          /\ tasks = [i \in 1..today |-> PlanTask(i, <<Today>>)]
                  \o [i \in 1..later |-> PlanTask(today + i, <<Tomorrow>>)]
                  \o [i \in 1..never |-> PlanTask(today + later + i, <<>>)]
          /\ events = [i \in 1..here |-> PlanEvent(i, Today)]
                   \o [i \in 1..there |-> PlanEvent(here + i, Tomorrow)]
          /\ plan = AddEvents(
                        AddTasks([EmptyPlan EXCEPT !.do_now =
                                      [i \in 1..e |-> EmailItem(PlanEmail(i))]],
                                 tasks),
                        events)
    /\ note = NoNote
    /\ runs = <<>>
    /\ todoist = tasks
    /\ amplenote = NoAccount
    /\ inbox = <<>>
    /\ arg = <<>>
    /\ ret = NoCall
    /\ urgent = <<>>
    /\ reference_emails = <<>>
    /\ seen_subjects = <<>>
    /\ threads = <<>>
    /\ thread_analyses = <<>>
    /\ lock = "free"
    /\ proc = <<>>
    /\ stats = <<>>

DisplayNext == AddStatistics \/ CreateDailyPlanTasks \/ UpdateDailyNote

DisplaySpec == DisplayInit /\ [][DisplayNext]_vars

\* how many of the entries or items come from that source
FromSource(items, source) ==
    Cardinality({ i \in 1..Len(items) : items[i].source = source })

\* shown is the beginning of items, entry by entry; an email is shown under
\* its title or its ai_summary
ShowsPrefix(shown, items) ==
    /\ Len(shown) <= Len(items)
    /\ \A i \in 1..Len(shown) :
          /\ shown[i].title \in { items[i].title,
                                  Get(items[i], "ai_summary", None) }
          /\ shown[i].source = items[i].source

\* emails come first, then tasks, then events
SourceRank(source) ==
    CASE source = "Email" -> 1 [] source = "Todoist" -> 2
      [] source = "Calendar" -> 3 [] OTHER -> 4

InInsertionOrder(shown) ==
    \A i, j \in 1..Len(shown) :
        i < j => SourceRank(shown[i].source) <= SourceRank(shown[j].source)

Smaller(a, b) == IF a < b THEN a ELSE b

C19_LockHeldOnlyWhileRunning ==
    /\ lock \in Schedulers \cup { "free" }
    /\ \A s \in Schedulers : lock = s <=> proc[s] = "running"

\* after a run that failed, a later trigger of the same scheduler has acquired
\* the lock, and the other scheduler has completed a run in between
C19_Witness ==
    \E s \in Schedulers :
        /\ stats[s].failed_runs >= 1
        /\ stats[s].total_runs = 2
        /\ lock = s
        /\ proc[s] = "running"
        /\ \E o \in Schedulers \ { s } : stats[o].successful_runs >= 1

\* the answer has the lines of the format asked for
AnswersInFormat(content) ==
    /\ \E i \in 1..Len(content) : StartsWith(Strip(content[i]), "SUMMARY:")
    /\ \E i \in 1..Len(content) : StartsWith(Strip(content[i]), "PRIORITY:")

\* C20: thread_analyses has one entry per selected thread, in selection
\* order, and each entry is either what an answer in the format asked for
\* says or the fallback analysis of its thread (medium priority, the one
\* manual-review action item, follow-up needed)
C20_AnalysisOrFallback ==
    pc \in { "selected", "analyzed", "raised" } =>
        /\ Len(thread_analyses) <= Len(threads)
        /\ pc = "analyzed" => Len(thread_analyses) = Len(threads)
        /\ \A i \in 1..Len(thread_analyses) :
              LET subject == threads[i][1]
                  emails == threads[i][2]
              IN  /\ thread_analyses[i].thread_subject = subject
                  /\ \/ thread_analyses[i] = _fallback_analysis(emails, subject)
                     \/ \E response \in Responses :
                           /\ response.kind = "ok"
                           /\ AnswersInFormat(response.content)
                           /\ thread_analyses[i] =
                                  _parse_analysis(response.content, emails,
                                                  subject)

(***************************************************************************)
(* Claims about failures, the scheduler lock and what the runs publish     *)
(***************************************************************************)
\* C21: a fetch that fails does not end the run: no run of process_new ends
\* with the exception of a fetch, the run goes on with the other sources
C21_FetchFailureGivesPartialPlan == pc # "raised"

\* C22: a run that met expired credentials does not report completion: when
\* the run is done the Amplenote token was neither refreshed on the way for a
\* silent second request nor found expired for good
C22_ExpiredCredentialsReachCaller ==
    pc = "done" => amplenote.token = "valid"

ReferenceIds == { reference_emails[i].id : i \in 1..Len(reference_emails) }

\* C23: an email whose sender has a suppression substring and no whitelist
\* substring is not returned by get_urgent_emails, whatever its text, and is
\* not recorded as a reference email
C23_UntrustedSenderDropped ==
    pc # "start" =>
        \A i \in 1..Len(inbox) :
            (/\ HasSuppressionSubstring(inbox[i].from)
             /\ ~HasWhitelistSubstring(inbox[i].from))
                => /\ inbox[i].id \notin UrgentIds
                   /\ inbox[i].id \notin ReferenceIds

\* C24: an email of a trusted sender that is not whitelisted, without priority
\* content and without suppression phrase, is returned by get_urgent_emails
\* if and only if its subject and body have one of the words 'urgent', 'asap',
\* 'deadline', 'today', 'action required'
C24_KeptIffGenericUrgencyWord ==
    pc # "start" =>
        \A i \in 1..Len(inbox) :
            (/\ ~HasSuppressionSubstring(inbox[i].from)
             /\ ~HasWhitelistSubstring(inbox[i].from)
             /\ ~HasPriorityPhrase(inbox[i].subject, inbox[i].body)
             /\ ~HasSuppressionPhrase(inbox[i].subject, inbox[i].body))
                => (inbox[i].id \in UrgentIds
                        <=> HasGenericUrgencyWord(inbox[i].subject,
                                                  inbox[i].body))

\* C25: a scheduler that waits for the lock while another run holds it, and
\* stops waiting before the lock is free, is idle again: it has not started
\* the pipeline, nothing remembers the trigger, and no counter of the
\* statistics has changed
C25_SkippedTriggerChangesNothing ==
    [][\A s \in Schedulers :
          (proc[s] = "acquiring" /\ lock # "free" /\ proc'[s] # proc[s])
              => /\ proc'[s] = "idle"
                 /\ stats' = stats
                 /\ lock' = lock]_vars

\* a scheduler is triggered while the run of the other holds the lock
C25_Witness ==
    \E s, t \in Schedulers :
        /\ s # t
        /\ proc[s] = "acquiring"
        /\ proc[t] = "running"
        /\ lock = t
        /\ stats[t].total_runs = 1
        /\ stats[s].total_runs = 0

\* the tasks of the account that a call of create_daily_plan_tasks created
PlannerTasks == SelectSeq(todoist, LAMBDA task : "call" \in DOMAIN task)

\* C26: when create_daily_plan_tasks has returned True, the tasks of the
\* account that the planner created are those of this call, at most 5 for
\* do_now and 3 for do_soon, whatever number of runs came before
C26_KillAndFill ==
    (/\ pc = "tasks_created"
     /\ ret.value = TRUE)
        => /\ \A i \in 1..Len(PlannerTasks) :
                 PlannerTasks[i].call = Len(runs) + 1
           /\ Len(PlannerTasks) <= do_now_created + do_soon_created

\* the notes of the account with the title of the daily plan
DailyPlanNotes ==
    SelectSeq(amplenote.notes, LAMBDA n : n.name = static_title)

\* C27: when update_daily_note_with_plan has returned True, the account has
\* exactly one note titled Daily Plan
C27_OneDailyPlanNote ==
    (/\ pc = "done"
     /\ ret.fn = "update_daily_note_with_plan"
     /\ ret.value = TRUE)
        => Len(DailyPlanNotes) = 1

\* the account has a task of that content and priority due today
HasTaskFor(content, priority) ==
    \E i \in 1..Len(todoist) :
        /\ todoist[i].content = content
        /\ todoist[i].priority = priority
        /\ todoist[i].due = <<Today>>

\* C28: when step 8 of process_new_comprehensive has deleted the old plan
\* tasks, the account has a task of priority 4 due today for the first action
\* item of every high priority thread with action items, and one of priority
\* 3 for those of the first three medium priority threads
C28_TaskPerPriorityThread ==
    (/\ pc \in { "tasks_created", "done" }
     /\ \A i \in 1..Len(todoist) : ~IsOldPlanTask(todoist[i]))
        => /\ \A i \in 1..Len(ret.high_priority) :
                 ret.high_priority[i].action_items # <<>>
                     => HasTaskFor(ret.high_priority[i].action_items[1], 4)
           /\ \A i \in 1..Len(FirstOf(ret.medium_priority, 3)) :
                 ret.medium_priority[i].action_items # <<>>
                     => HasTaskFor(ret.medium_priority[i].action_items[1], 3)

C30_DroppedOnlyAsSameEventDuplicate ==
    pc \in { "deduplicated", "emails_added", "categorized", "counted",
             "tasks_created", "done" } =>
        \A i \in 1..Len(urgent) :
            urgent[i].id \notin RetainedIds =>
                \E k \in 1..Len(seen_subjects) :
                    /\ seen_subjects[k][2].id # urgent[i].id
                    /\ SameEvent(Lower(urgent[i].subject),
                                 Lower(seen_subjects[k][2].subject))

====
